---- MODULE Spec2Model ----
(***************************************************************************)
(* A model of unix_like_serial.c (serial communication manager, native     *)
(* layer): the byte-stream I/O engine (readBytes, writeBytes), the         *)
(* listener registry (setUp/destroy Data/Event LooperThread), the port     *)
(* configuration engine, openComPort/closeComPort and the port monitor.    *)
(*                                                                         *)
(* The specifications share the module, one per subsystem:                 *)
(*   SpecRead   readBytes, one read() outcome per step                     *)
(*   SpecWrite  writeBytes, one write() outcome per step                   *)
(*   SpecReg    the registry operations called one after the other, and    *)
(*              the listener threads they spawn running beside them        *)
(*   SpecRegLong        the same with one more registration per run        *)
(*   SpecRegFaulty      the same when pthread_create may fail              *)
(*   SpecRegConcurrent  the same with two callers at once                  *)
(*   SpecCfg    the port-configuration engine, one call per step           *)
(*   SpecCfgFaulty      the same when a get or set call may fail           *)
(*   SpecPort   openComPort and closeComPort, one call per step            *)
(*   SpecMon    the port monitor operations and the monitor threads        *)
(*   SpecTables the listener registry and the port monitor side by side    *)
(*   SpecCfgRace  configureComPortData and configureComPortControl called  *)
(*              at the same time, one get or set call per step             *)
(*   SpecLineRace setRTS and setDTR called at the same time, one ioctl     *)
(*              per step                                                   *)
(***************************************************************************)
EXTENDS Integers, Sequences, FiniteSets, TLC

(***************************************************************************)
(* Bounds of the model.                                                    *)
(***************************************************************************)
\* sizeof(buffer) in readBytes is 1024; the model scales it down.  final_buf
\* keeps the source's ratio of three buffers.
ReadBufSize == 2
\* read() calls made by one readBytes call before the model stops it.
MaxReads == 3
\* Length of the longest array handed to writeBytes.
MaxWriteLen == 3
\* write() calls made by one writeBytes call before the model stops it.
MaxWrites == 4

\* A cell of the stack array final_buf that was never assigned.
Uninit == -1
\* Byte values.  The peer's stream is tagged 1, 2, 3, ... so that a dropped,
\* duplicated or replaced byte is visible; 0 is a value the peer never sent.
Byte == 0 .. (MaxReads * ReadBufSize)
FinalBufLen == 3 * ReadBufSize

\* errno values a failing read()/write() may leave, besides EINTR and EAGAIN.
EIO == 5
EBADF == 9
OtherErrnos == {EIO, EBADF}

VARIABLES
    \* ---- readBytes ----
    rb_pc,          \* "idle" | "loop" | "done"
    rb_index,       \* int index
    rb_partialData, \* int partialData
    rb_final_buf,   \* jbyte final_buf[1024 * 3]
    rb_kind,        \* what was returned: "none" | "array" | "null"
    rb_dataRead,    \* the returned jbyteArray, as a sequence
    rb_delivered,   \* history: every byte read() returned in this call, in order
    rb_outcomes,    \* history: the outcome of every read() of this call
    \* ---- writeBytes ----
    wb_pc,          \* "idle" | "loop" | "done"
    wb_n,           \* GetArrayLength(buffer)
    wb_count,       \* size_t count
    wb_index,       \* int index
    wb_result,      \* the value returned
    wb_accepted,    \* history: positions of the buffer the OS accepted, in order
    wb_calls,       \* history: write() calls made by this invocation
    wb_failed,      \* history: errno of the first write() that failed other than by EINTR
    wb_after_fail,  \* history: write() calls made after that failure
    wb_drained      \* history: tcdrain was called after the last write()

rbVars == <<rb_pc, rb_index, rb_partialData, rb_final_buf, rb_kind, rb_dataRead,
            rb_delivered, rb_outcomes>>
wbVars == <<wb_pc, wb_n, wb_count, wb_index, wb_result, wb_accepted, wb_calls,
            wb_failed, wb_after_fail, wb_drained>>

(***************************************************************************)
(* readBytes                                                               *)
(***************************************************************************)
rbInit ==
    /\ rb_pc = "idle"
    /\ rb_index = 0
    /\ rb_partialData = -1
    /\ rb_final_buf = [i \in 0 .. FinalBufLen - 1 |-> Uninit]
    /\ rb_kind = "none"
    /\ rb_dataRead = <<>>
    /\ rb_delivered = <<>>
    /\ rb_outcomes = <<>>

\* The next len bytes of the peer's stream, given what this call already read.
PeerData(len) == [j \in 1 .. len |-> Len(rb_delivered) + j]

\* for(i = index; i < ret; i++) final_buf[i] = buffer[i];
\* buffer holds the bytes of the last read(): buffer[i] is data[i + 1].
CopyLoop(final_buf, index, ret, data) ==
    [i \in 0 .. FinalBufLen - 1 |->
        IF index <= i /\ i < ret THEN data[i + 1] ELSE final_buf[i]]

\* SetByteArrayRegion(env, dataRead, 0, len, final_buf): the arrays the call can
\* produce.  A cell never assigned holds whatever the stack held.
RegionOf(final_buf, len) ==
    LET unset == {i \in 0 .. len - 1 : final_buf[i] = Uninit}
    IN  { [j \in 1 .. len |->
              IF final_buf[j - 1] = Uninit THEN g[j - 1] ELSE final_buf[j - 1]]
          : g \in [unset -> Byte] }

\* Entry of the function: the locals as declared.
ReadCall ==
    /\ rb_pc \in {"idle", "done"}
    /\ rb_pc' = "loop"
    /\ rb_index' = 0
    /\ rb_partialData' = -1
    /\ rb_final_buf' = [i \in 0 .. FinalBufLen - 1 |-> Uninit]
    /\ rb_kind' = "none"
    /\ rb_dataRead' = <<>>
    /\ rb_delivered' = <<>>
    /\ rb_outcomes' = <<>>

\* ret > 0 && errno == 0
ReadData(len) ==
    /\ rb_pc = "loop"
    /\ Len(rb_outcomes) < MaxReads
    /\ LET data == PeerData(len)
       IN  /\ rb_delivered' = rb_delivered \o data
           /\ rb_outcomes' = Append(rb_outcomes, "data")
           /\ IF rb_partialData = 1
              THEN LET fb == CopyLoop(rb_final_buf, rb_index, len, data)
                   IN  /\ rb_final_buf' = fb
                       /\ rb_dataRead' \in RegionOf(fb, rb_index + len)
              ELSE /\ rb_final_buf' = rb_final_buf
                   /\ rb_dataRead' = data
    /\ rb_kind' = "array"
    /\ rb_pc' = "done"
    /\ UNCHANGED <<rb_index, rb_partialData>>

\* ret > 0 && errno == EINTR
ReadDataInterrupted(len) ==
    /\ rb_pc = "loop"
    /\ Len(rb_outcomes) < MaxReads
    /\ LET data == PeerData(len)
       IN  /\ rb_delivered' = rb_delivered \o data
           /\ rb_final_buf' = CopyLoop(rb_final_buf, rb_index, len, data)
    /\ rb_outcomes' = Append(rb_outcomes, "dataEINTR")
    /\ rb_index' = len
    /\ rb_partialData' = 1
    /\ UNCHANGED <<rb_pc, rb_kind, rb_dataRead>>

\* ret < 0 with errno EAGAIN/EWOULDBLOCK, and ret == 0: an empty array.
ReadEmpty(outcome) ==
    /\ rb_pc = "loop"
    /\ Len(rb_outcomes) < MaxReads
    /\ rb_outcomes' = Append(rb_outcomes, outcome)
    /\ rb_dataRead' = <<>>
    /\ rb_kind' = "array"
    /\ rb_pc' = "done"
    /\ UNCHANGED <<rb_index, rb_partialData, rb_final_buf, rb_delivered>>

\* ret < 0 && errno == EINTR: continue.
ReadInterrupted ==
    /\ rb_pc = "loop"
    /\ Len(rb_outcomes) < MaxReads
    /\ rb_outcomes' = Append(rb_outcomes, "EINTR")
    /\ UNCHANGED <<rb_pc, rb_index, rb_partialData, rb_final_buf, rb_kind,
                   rb_dataRead, rb_delivered>>

\* A failed read answered with the empty array.
ReadErrorAsEmpty ==
    /\ rb_pc = "loop"
    /\ Len(rb_outcomes) < MaxReads
    /\ rb_outcomes' = Append(rb_outcomes, "error")
    /\ rb_dataRead' = <<>>
    /\ rb_kind' = "array"
    /\ rb_pc' = "done"
    /\ UNCHANGED <<rb_index, rb_partialData, rb_final_buf, rb_delivered>>

\* ret < 0 with any other errno: break, return NULL.
ReadError ==
    /\ rb_pc = "loop"
    /\ Len(rb_outcomes) < MaxReads
    /\ rb_outcomes' = Append(rb_outcomes, "error")
    /\ rb_kind' = "null"
    /\ rb_pc' = "done"
    /\ UNCHANGED <<rb_index, rb_partialData, rb_final_buf, rb_dataRead, rb_delivered>>

(***************************************************************************)
(* writeBytes                                                              *)
(***************************************************************************)
wbInit ==
    /\ wb_pc = "idle"
    /\ wb_n = 0
    /\ wb_count = 0
    /\ wb_index = 0
    /\ wb_result = 0
    /\ wb_accepted = <<>>
    /\ wb_calls = 0
    /\ wb_failed = 0
    /\ wb_after_fail = 0
    /\ wb_drained = FALSE

\* The value of (count > 0 && (ret = write(...))): the && yields 0 or 1, and it
\* is this 0 or 1 that the loop compares with count.
LoopLhs(count, ret) == IF count > 0 /\ ret # 0 THEN 1 ELSE 0

\* while((count > 0 && (ret = write(fd, &data_buf[index], count))) != count)
LoopContinues(count, ret) == LoopLhs(count, ret) # count

\* Entry: count = GetArrayLength(buffer), index = 0.  Both branches on delay
\* run the same loop.
WriteCall(n) ==
    /\ wb_pc \in {"idle", "done"}
    /\ wb_pc' = "loop"
    /\ wb_n' = n
    /\ wb_count' = n
    /\ wb_index' = 0
    /\ wb_result' = 0
    /\ wb_accepted' = <<>>
    /\ wb_calls' = 0
    /\ wb_failed' = 0
    /\ wb_after_fail' = 0
    /\ wb_drained' = FALSE

\* A return of 0 that skips the drain.
WriteFinishNoDrain ==
    /\ wb_pc' = "done"
    /\ wb_result' = 0
    /\ wb_drained' = FALSE

\* After the loop: ReleaseByteArrayElements, tcdrain(fd), return 0.
WriteFinish ==
    /\ wb_pc' = "done"
    /\ wb_result' = 0
    /\ wb_drained' = TRUE

\* The history of one more write() call.
WriteCounted ==
    /\ wb_calls' = wb_calls + 1
    /\ wb_after_fail' = IF wb_failed # 0 THEN wb_after_fail + 1 ELSE wb_after_fail

\* count == 0: write() is not called and the loop ends.
WriteNothingLeft ==
    /\ wb_pc = "loop"
    /\ wb_count = 0
    /\ ~LoopContinues(wb_count, 0)
    /\ WriteFinish
    /\ UNCHANGED <<wb_n, wb_count, wb_index, wb_accepted, wb_calls, wb_failed,
                   wb_after_fail>>

\* A loop that takes the accepted bytes off count and leaves index where it was.
WriteAcceptsSameOffset(k) ==
    /\ wb_pc = "loop"
    /\ wb_count > 0
    /\ wb_calls < MaxWrites
    /\ k \in 0 .. wb_count
    /\ WriteCounted
    /\ wb_accepted' = wb_accepted \o [j \in 1 .. k |-> wb_index + j - 1]
    /\ IF LoopContinues(wb_count, k)
       THEN /\ wb_count' = wb_count - k
            /\ UNCHANGED <<wb_index, wb_pc, wb_result, wb_drained>>
       ELSE /\ WriteFinish
            /\ UNCHANGED <<wb_count, wb_index>>
    /\ UNCHANGED <<wb_n, wb_failed>>

\* write() accepts k of the count bytes offered, from data_buf[index] on.
WriteAccepts(k) ==
    /\ wb_pc = "loop"
    /\ wb_count > 0
    /\ wb_calls < MaxWrites
    /\ k \in 0 .. wb_count
    /\ WriteCounted
    /\ wb_accepted' = wb_accepted \o [j \in 1 .. k |-> wb_index + j - 1]
    /\ IF LoopContinues(wb_count, k)
       THEN \* ret >= 0: count -= ret; index = index + ret;
            /\ wb_count' = wb_count - k
            /\ wb_index' = wb_index + k
            /\ UNCHANGED <<wb_pc, wb_result, wb_drained>>
       ELSE /\ WriteFinish
            /\ UNCHANGED <<wb_count, wb_index>>
    /\ UNCHANGED <<wb_n, wb_failed>>

\* write() returns -1 with errno EINTR.
WriteInterrupted ==
    /\ wb_pc = "loop"
    /\ wb_count > 0
    /\ wb_calls < MaxWrites
    /\ WriteCounted
    /\ IF LoopContinues(wb_count, -1)
       THEN \* if(ret < 0 && errno == EINTR) continue;
            UNCHANGED <<wb_pc, wb_result, wb_drained>>
       ELSE WriteFinish
    /\ UNCHANGED <<wb_n, wb_count, wb_index, wb_accepted, wb_failed>>

\* write() returns -1 with errno e, not EINTR.
WriteFails(e) ==
    /\ wb_pc = "loop"
    /\ wb_count > 0
    /\ wb_calls < MaxWrites
    /\ WriteCounted
    /\ wb_failed' = IF wb_failed = 0 THEN e ELSE wb_failed
    /\ IF LoopContinues(wb_count, -1)
       THEN \* if(ret < 0) return (negative * errno);
            /\ wb_pc' = "done"
            /\ wb_result' = -e
            /\ UNCHANGED wb_drained
       ELSE WriteFinish
    /\ UNCHANGED <<wb_n, wb_count, wb_index, wb_accepted>>

(***************************************************************************)
(* The listener registry: fd_looper_info, dtp_index and the mutex, the     *)
(* four register/unregister operations, and the listener threads.          *)
(***************************************************************************)
\* #define MAX_NUM_THREADS 1024: the number of entries of the table.  The code
\* uses it only as the bound of its scans, so the model keeps a table of two
\* entries: enough for an entry to be full, reclaimed, or shared.
MAX_NUM_THREADS == 2
\* Descriptors the callers pass.  0 is left out: an open() of a serial device
\* never yields it, and the zeroed table holds it in every unused entry.
FDs == {1, 2, 3}
\* Registrations that get as far as pthread_create in one run; the longer
\* runs (SpecRegLong) allow one more.
MaxThreads == 2
\* The names pthread_create gives the threads, in the order of its calls.
ThreadIds == 1 .. MaxThreads + 1
\* What pthread_create returns when the system lacks the resources for
\* another thread.
EAGAIN == 35
\* The threads of the managed runtime that call into the library.
Callers == {1, 2}
Kinds == {"data", "event"}

Slots == 0 .. MAX_NUM_THREADS - 1
\* What ptr points at when a scan ran off the table: &fd_looper_info[MAX_NUM_THREADS].
PastTheEnd == MAX_NUM_THREADS
\* ptr->fd = -1 marks a reclaimed entry.
FreeFd == -1
\* The value pthread_join and pthread_kill return for a thread that is not there.
ESRCH == 3
\* return -240 when NewGlobalRef yields NULL.
NoGlobalRef == -240

VARIABLES
    dtp_index,       \* int dtp_index
    fd_looper_info,  \* struct com_thread_params fd_looper_info[MAX_NUM_THREADS]
    mutex,           \* pthread_mutex_t mutex: 0 when free, else the caller holding it
    caller,          \* per caller: where it is in its operation, and its locals
    thread,          \* per pthread_t: the listener thread's state
    wake,            \* wake pipes holding an unread byte, named by the thread owning them
    used,            \* descriptors 1 .. used were passed to some call so far
    thread_limit,    \* the number of pthread_create calls the run allows
    ub               \* the undefined behaviour the run ended in, if any

regVars == <<dtp_index, fd_looper_info, mutex, caller, thread, wake, used, thread_limit, ub>>

\* struct com_thread_params fd_looper_info[MAX_NUM_THREADS] = { {0} };
ZeroEntry ==
    [fd |-> 0, data_thread_id |-> 0, event_thread_id |-> 0, evfd |-> 0,
     data_thread_exit |-> 0, event_thread_exit |-> 0,
     data_init_done |-> 0, event_init_done |-> 0]

\* The struct params the set-up functions fill in for a new descriptor.
NewParams(fd) == [ZeroEntry EXCEPT !.fd = fd]

ThreadIdField(kind) == IF kind = "data" THEN "data_thread_id" ELSE "event_thread_id"
ThreadExitField(kind) == IF kind = "data" THEN "data_thread_exit" ELSE "event_thread_exit"
InitDoneField(kind) == IF kind = "data" THEN "data_init_done" ELSE "event_init_done"
OtherKind(kind) == IF kind = "data" THEN "event" ELSE "data"

\* A caller between two calls.  Besides the locals of the operation it runs
\* (x, entry_found, arg, thread_id, ret) a caller carries what the claims ask
\* about the call:
\*   live      entries holding a descriptor when the call took the mutex
\*   listening setUp: a listener of the kind was registered for the entry then;
\*             destroy: a listener thread of the kind was RUNNING for it then
\*   early     setUp returned 0 while the thread it spawned had not yet set
\*             its readiness flag
\*   create_ret setUp: what pthread_create returned
\*   wake_sent destroy: how the listener was woken, "write" to its wake pipe
\*             or "signal" by pthread_kill
IdleCaller ==
    [pc |-> "idle", op |-> "none", kind |-> "none", fd |-> 0,
     x |-> 0, entry_found |-> FALSE, arg |-> 0, thread_id |-> 0, ret |-> 0,
     live |-> 0, listening |-> FALSE, early |-> FALSE, wake_sent |-> "none",
     create_ret |-> 0]

\* A caller that makes no call in this run.
AbsentCaller == [IdleCaller EXCEPT !.pc = "absent"]

NoThread == [state |-> "none", kind |-> "none", slot |-> 0]

\* No undefined behaviour so far.
NoUB == [cause |-> "none", op |-> "none", live |-> 0]

\* The library after initNativeLib: the zeroed table, the mutex free, no
\* thread.  callers are the callers that make calls in the run.
regInitWith(callers, limit) ==
    /\ thread_limit = limit
    /\ dtp_index = 0
    /\ fd_looper_info = [x \in Slots |-> ZeroEntry]
    /\ mutex = 0
    /\ caller = [c \in Callers |-> IF c \in callers THEN IdleCaller ELSE AbsentCaller]
    /\ thread = [t \in ThreadIds |-> NoThread]
    /\ wake = {}
    /\ used = 0
    /\ ub = NoUB

\* One caller makes the calls, one after the other.
regInit == regInitWith({1}, MaxThreads)

\* Both callers make calls, concurrently.
regInitConcurrent == regInitWith(Callers, MaxThreads)

\* One caller, and room for one more thread.
regInitLong == regInitWith({1}, MaxThreads + 1)

\* Threads spawned so far; pthread_create names the next one NumSpawned + 1.
NumSpawned == Cardinality({t \in ThreadIds : thread[t].state # "none"})

\* A thread pthread_join / pthread_kill can address: created and not yet joined.
Joinable(t) == t \in ThreadIds /\ thread[t].state \notin {"none", "joined", "failed"}

\* A listener thread that still runs.
Alive(t) == t \in ThreadIds /\ thread[t].state \in {"starting", "running", "stopping"}

\* A listener thread of the kind is in its RUNNING state for entry x.
ListenerRunning(x, kind) ==
    \E t \in ThreadIds :
        thread[t].state = "running" /\ thread[t].kind = kind /\ thread[t].slot = x

\* Entries that hold a descriptor (neither untouched nor reclaimed).
LiveSlots == {x \in Slots : fd_looper_info[x].fd \in FDs}

\* A scan that matches no entry: a registry without the look-up, where every
\* registration takes a fresh entry.
FindNoEntry(fd) == PastTheEnd

\* for (x=0; x < MAX_NUM_THREADS; x++) { if(ptr->fd == fd) break; ptr++; }
\* the x the loop ends with: the first matching entry, or MAX_NUM_THREADS.
FindEntry(fd) ==
    LET hits == {x \in Slots : fd_looper_info[x].fd = fd}
    IN  IF hits = {} THEN PastTheEnd
        ELSE CHOOSE x \in hits : \A y \in hits : x <= y

\* pthread_mutex_unlock(&mutex); return ret;
\* The caller is idle again and remembers the value returned.
Return(c, ret, early) == [IdleCaller EXCEPT !.ret = ret, !.early = early]

\* The descriptors are interchangeable: a call passes one already passed
\* (fd <= used) or the next one (used + 1).
Max2(a, b) == IF a >= b THEN a ELSE b

\* Undefined behaviour: a write outside fd_looper_info, a pthread_join or
\* pthread_kill of no thread.  Nothing can be said of the program from there
\* on: the run ends in a state that only records what happened.
Undefined(cause, op, live) ==
    /\ ub' = [cause |-> cause, op |-> op, live |-> live]
    /\ dtp_index' = 0
    /\ fd_looper_info' = [x \in Slots |-> ZeroEntry]
    /\ mutex' = 0
    /\ caller' = [c \in Callers |-> AbsentCaller]
    /\ thread' = [t \in ThreadIds |-> NoThread]
    /\ wake' = {}
    /\ used' = 0

(***************************************************************************)
(* setUpDataLooperThread / setUpEventLooperThread                          *)
(***************************************************************************)
\* pthread_mutex_lock, the scan, and for a descriptor without entry the write
\* of params to fd_looper_info[dtp_index].  No bound on dtp_index is checked.
SetUpBegin(c, kind, fd) ==
    /\ ub = NoUB
    /\ caller[c].pc = "idle"
    /\ NumSpawned < thread_limit
    /\ mutex = 0
    /\ fd <= used + 1
    /\ LET x == FindEntry(fd)
           found == x # PastTheEnd
           live == Cardinality(LiveSlots)
           begun == [IdleCaller EXCEPT !.pc = "su_create", !.op = "setUp",
                                       !.kind = kind, !.fd = fd, !.x = x,
                                       !.entry_found = found, !.live = live,
                                       !.listening =
                                           found /\ fd_looper_info[x][ThreadIdField(kind)] # 0]
       IN  IF found
           THEN /\ caller' = [caller EXCEPT ![c] = [begun EXCEPT !.arg = x]]
                /\ mutex' = c
                /\ used' = Max2(used, fd)
                /\ UNCHANGED <<dtp_index, fd_looper_info, thread, wake, ub>>
           ELSE IF dtp_index \in Slots
           THEN /\ fd_looper_info' = [fd_looper_info EXCEPT ![dtp_index] = NewParams(fd)]
                /\ caller' = [caller EXCEPT ![c] = [begun EXCEPT !.arg = dtp_index]]
                /\ mutex' = c
                /\ used' = Max2(used, fd)
                /\ UNCHANGED <<dtp_index, thread, wake, ub>>
           ELSE \* fd_looper_info[dtp_index] = params with dtp_index past the table
                Undefined("write outside the table", "setUp", live)

\* NewGlobalRef returns NULL (only asked for when no entry was found):
\* unlock and return -240.
SetUpNoGlobalRef(c, kind, fd) ==
    /\ ub = NoUB
    /\ caller[c].pc = "idle"
    /\ NumSpawned < thread_limit
    /\ mutex = 0
    /\ fd <= used + 1
    /\ FindEntry(fd) = PastTheEnd
    /\ caller' = [caller EXCEPT ![c] = Return(c, NoGlobalRef, FALSE)]
    /\ used' = Max2(used, fd)
    /\ UNCHANGED <<dtp_index, fd_looper_info, mutex, thread, wake, ub>>

\* if(ret < 0): the test made of the value pthread_create returned.
CreateFailed(ret) == ret < 0

\* pthread_create(&thread_id, NULL, &data_looper / &event_looper, arg)
SetUpCreate(c) ==
    /\ ub = NoUB
    /\ caller[c].pc = "su_create"
    /\ LET t == NumSpawned + 1
       IN  /\ thread' = [thread EXCEPT ![t] =
                            [state |-> "starting", kind |-> caller[c].kind,
                             slot |-> caller[c].arg]]
           /\ caller' = [caller EXCEPT ![c].pc = "su_save", ![c].thread_id = t]
    /\ UNCHANGED <<dtp_index, fd_looper_info, mutex, wake, used, ub>>

\* pthread_create fails: it returns EAGAIN and creates no thread (the name it
\* would have given is marked "failed" and names no thread).  thread_id
\* keeps what it held: 0 in setUpDataLooperThread, which initialises it, and
\* any value in setUpEventLooperThread, which does not.  errno is the 0 it
\* was set to before the call.
SetUpCreateFails(c) ==
    /\ ub = NoUB
    /\ caller[c].pc = "su_create"
    /\ thread' = [thread EXCEPT ![NumSpawned + 1] = [NoThread EXCEPT !.state = "failed"]]
    /\ IF CreateFailed(EAGAIN)
       THEN /\ caller' = [caller EXCEPT ![c] = Return(c, 0, FALSE)]
            /\ mutex' = 0
       ELSE /\ \E id \in IF caller[c].kind = "data" THEN {0} ELSE {0} \cup ThreadIds :
                   caller' = [caller EXCEPT ![c].pc = "su_save", ![c].thread_id = id,
                                            ![c].create_ret = EAGAIN]
            /\ UNCHANGED mutex
    /\ UNCHANGED <<dtp_index, fd_looper_info, wake, used, ub>>

\* arg->data_thread_id = thread_id (event_thread_id); dtp_index++ unless the
\* entry was found; pthread_mutex_unlock.
SetUpSave(c) ==
    /\ ub = NoUB
    /\ caller[c].pc = "su_save"
    /\ fd_looper_info' = [fd_looper_info EXCEPT
                             ![caller[c].arg][ThreadIdField(caller[c].kind)] =
                                 caller[c].thread_id]
    /\ dtp_index' = IF caller[c].entry_found THEN dtp_index ELSE dtp_index + 1
    /\ mutex' = 0
    /\ caller' = [caller EXCEPT ![c].pc = "su_wait"]
    /\ UNCHANGED <<thread, wake, used, ub>>

\* while(0 == arg->data_init_done) { }  then return 0 for 1, else the value.
SetUpWait(c) ==
    /\ ub = NoUB
    /\ caller[c].pc = "su_wait"
    /\ LET done == fd_looper_info[caller[c].arg][InitDoneField(caller[c].kind)]
       IN  /\ done # 0
           /\ caller' = [caller EXCEPT ![c] =
                 [Return(c, IF done = 1 THEN 0 ELSE done,
                         /\ done = 1
                         /\ caller[c].create_ret = 0
                         /\ thread[caller[c].thread_id].state = "starting")
                  EXCEPT !.listening = caller[c].listening]]
    /\ UNCHANGED <<dtp_index, fd_looper_info, mutex, thread, wake, used, ub>>

(***************************************************************************)
(* destroyDataLooperThread / destroyEventLooperThread                      *)
(***************************************************************************)
\* pthread_mutex_lock and the scan; the thread id is read from the entry
\* found, and stays 0 when no entry matches.
DestroyBegin(c, kind, fd) ==
    /\ ub = NoUB
    /\ caller[c].pc = "idle"
    /\ mutex = 0
    /\ fd <= used + 1
    /\ mutex' = c
    /\ used' = Max2(used, fd)
    /\ LET x == FindEntry(fd)
           found == x # PastTheEnd
       IN  caller' = [caller EXCEPT ![c] =
               [IdleCaller EXCEPT !.pc = "ds_flag", !.op = "destroy", !.kind = kind,
                                  !.fd = fd, !.x = x, !.entry_found = found,
                                  !.live = Cardinality(LiveSlots),
                                  !.listening = found /\ ListenerRunning(x, kind),
                                  !.thread_id =
                                      IF found
                                      THEN fd_looper_info[x][ThreadIdField(kind)]
                                      ELSE 0]]
    /\ UNCHANGED <<dtp_index, fd_looper_info, thread, wake, ub>>

\* write(ptr->evfd, "E", strlen("E")): a byte for the pipe evfd names, lost
\* when evfd names no open pipe.
WakeWritten(evfd) ==
    IF evfd \in ThreadIds /\ thread[evfd].kind = "data"
       /\ thread[evfd].state \in {"running", "stopping"}
    THEN wake \cup {evfd}
    ELSE wake

\* A stop that goes on to the wake without setting the cancellation flag.
DestroyFlagNotSet(c) ==
    /\ ub = NoUB
    /\ caller[c].pc = "ds_flag"
    /\ caller[c].x # PastTheEnd
    /\ caller' = [caller EXCEPT ![c].pc = "ds_wake"]
    /\ UNCHANGED <<dtp_index, fd_looper_info, mutex, thread, wake, used, ub>>

\* ptr->data_thread_exit = 1 (data), ptr->event_thread_exit = 1 (event).  ptr is
\* not checked: after a scan without match it points past the table.
DestroyFlag(c) ==
    /\ ub = NoUB
    /\ caller[c].pc = "ds_flag"
    /\ caller[c].x # PastTheEnd
    /\ fd_looper_info' = [fd_looper_info EXCEPT
                             ![caller[c].x][ThreadExitField(caller[c].kind)] = 1]
    /\ caller' = [caller EXCEPT ![c].pc = "ds_wake"]
    /\ UNCHANGED <<dtp_index, mutex, thread, wake, used, ub>>

\* The wake: write(ptr->evfd, "E", strlen("E")) (data), whose result is not
\* looked at; pthread_kill(event_thread_id, SIGUSR1) (event), whose failure
\* ends the call.
DestroyWake(c) ==
    /\ ub = NoUB
    /\ caller[c].pc = "ds_wake"
    /\ IF caller[c].kind = "data"
       THEN /\ wake' = WakeWritten(fd_looper_info[caller[c].x].evfd)
            /\ caller' = [caller EXCEPT ![c].pc = "ds_join", ![c].wake_sent = "write"]
            /\ UNCHANGED mutex
       ELSE IF Joinable(caller[c].thread_id)
       THEN /\ caller' = [caller EXCEPT ![c].pc = "ds_join", ![c].wake_sent = "signal"]
            /\ UNCHANGED <<mutex, wake>>
       ELSE \* pthread_kill of no thread returned ESRCH: unlock, return -ESRCH
            /\ caller' = [caller EXCEPT ![c] = Return(c, -ESRCH, FALSE)]
            /\ mutex' = 0
            /\ UNCHANGED wake
    /\ UNCHANGED <<dtp_index, fd_looper_info, thread, used, ub>>

\* The same step after a scan without match: ptr->data_thread_exit = 1 is a
\* write past the table.
DestroyFlagPastTheEnd(c) ==
    /\ ub = NoUB
    /\ caller[c].pc = "ds_flag"
    /\ caller[c].x = PastTheEnd
    /\ Undefined("write outside the table", "destroy", caller[c].live)

\* pthread_kill(0, SIGUSR1): instead of returning ESRCH the library may fault.
DestroyKillNoThread(c) ==
    /\ ub = NoUB
    /\ caller[c].pc = "ds_wake"
    /\ caller[c].kind = "event"
    /\ ~Joinable(caller[c].thread_id)
    /\ Undefined("pthread_kill of no thread", "destroy", caller[c].live)

\* After a join that returned 0: reset the thread id, and mark the entry free
\* when the other kind's thread id is 0.
Reclaim(entry, kind) ==
    LET reset == [entry EXCEPT ![ThreadIdField(kind)] = 0]
    IN  IF reset[ThreadIdField(OtherKind(kind))] = 0
        THEN [reset EXCEPT !.fd = FreeFd]
        ELSE reset

\* pthread_join(thread_id, &status) returns once the thread has terminated.
DestroyJoin(c) ==
    /\ ub = NoUB
    /\ caller[c].pc = "ds_join"
    /\ Joinable(caller[c].thread_id)
    /\ thread[caller[c].thread_id].state = "exited"
    /\ thread' = [thread EXCEPT ![caller[c].thread_id] = [NoThread EXCEPT !.state = "joined"]]
    /\ fd_looper_info' = [fd_looper_info EXCEPT
                             ![caller[c].x] = Reclaim(@, caller[c].kind)]
    /\ mutex' = 0
    /\ caller' = [caller EXCEPT ![c] = Return(c, 0, FALSE)]
    /\ UNCHANGED <<dtp_index, wake, used, ub>>

\* pthread_join of a thread id that names no joinable thread (0 from an entry
\* without listener of the kind): the library returns ESRCH, or faults.
DestroyJoinNoThread(c) ==
    /\ ub = NoUB
    /\ caller[c].pc = "ds_join"
    /\ ~Joinable(caller[c].thread_id)
    /\ \/ /\ caller' = [caller EXCEPT ![c] = Return(c, -ESRCH, FALSE)]
          /\ mutex' = 0
          /\ UNCHANGED <<dtp_index, fd_looper_info, thread, wake, used, ub>>
       \/ Undefined("pthread_join of no thread", "destroy", caller[c].live)

(***************************************************************************)
(* The listener threads (data_looper, event_looper).  Their code is in the *)
(* library file unix_like_serial_lib.c; they are modelled from the design  *)
(* description: STARTING -> RUNNING -> STOPPING -> STOPPED.                *)
(***************************************************************************)
\* STARTING: initialise the wake mechanism, set the readiness flag.
DataLooperStart(t) ==
    /\ ub = NoUB
    /\ thread[t].state = "starting"
    /\ thread[t].kind = "data"
    /\ fd_looper_info' = [fd_looper_info EXCEPT
                             ![thread[t].slot].evfd = t,
                             ![thread[t].slot].data_init_done = 1]
    /\ thread' = [thread EXCEPT ![t].state = "running"]
    /\ UNCHANGED <<dtp_index, mutex, caller, wake, used, ub>>

EventLooperStart(t) ==
    /\ ub = NoUB
    /\ thread[t].state = "starting"
    /\ thread[t].kind = "event"
    /\ fd_looper_info' = [fd_looper_info EXCEPT ![thread[t].slot].event_init_done = 1]
    /\ thread' = [thread EXCEPT ![t].state = "running"]
    /\ UNCHANGED <<dtp_index, mutex, caller, wake, used, ub>>

\* RUNNING, woken through its wake mechanism: with the cancellation flag set
\* go to STOPPING (without it, back to waiting).
DataLooperWoken(t) ==
    /\ ub = NoUB
    /\ thread[t].state = "running"
    /\ thread[t].kind = "data"
    /\ t \in wake
    /\ fd_looper_info[thread[t].slot].data_thread_exit = 1
    /\ thread' = [thread EXCEPT ![t].state = "stopping"]
    /\ UNCHANGED <<dtp_index, fd_looper_info, mutex, caller, wake, used, ub>>

\* RUNNING: the event listener's wait is a cancellable one (a signal, or the
\* end of a sleep-and-poll cycle); it then sees the cancellation flag.
EventLooperWoken(t) ==
    /\ ub = NoUB
    /\ thread[t].state = "running"
    /\ thread[t].kind = "event"
    /\ fd_looper_info[thread[t].slot].event_thread_exit = 1
    /\ thread' = [thread EXCEPT ![t].state = "stopping"]
    /\ UNCHANGED <<dtp_index, fd_looper_info, mutex, caller, wake, used, ub>>

\* STOPPING -> STOPPED: release the wake mechanism, clear the own
\* thread-identity field of the slot, terminate.
LooperStop(t) ==
    /\ ub = NoUB
    /\ thread[t].state = "stopping"
    /\ wake' = wake \ {t}
    /\ fd_looper_info' = [fd_looper_info EXCEPT
                             ![thread[t].slot][ThreadIdField(thread[t].kind)] = 0]
    /\ thread' = [thread EXCEPT ![t] = [NoThread EXCEPT !.state = "exited"]]
    /\ UNCHANGED <<dtp_index, mutex, caller, used, ub>>

(***************************************************************************)
(* The port-configuration engine: configureComPortData,                    *)
(* configureComPortControl, setMinDataLength, getCurrentConfigurationU.    *)
(* The file builds for three platforms (#if defined __linux__, __APPLE__,  *)
(* __SunOS); the platform is fixed when a run starts.  A control block is  *)
(* a record: each flag word is the set of the names of its bits that are   *)
(* set, and the multi-bit fields CSIZE and CBAUD are fields of their own.  *)
(***************************************************************************)
Platforms == {"linux", "apple", "sunos"}

\* baudRateTranslated == 251 asks for the custom rate custBaudTranslated.
CustomBaudSentinel == 251
\* The custom rate the callers ask for.
CustomRate == 250000
\* The standard rate the callers ask for (ports are found at it or at 115200).
StandardRates == {9600}
\* B9600, B115200 and BOTHER where the rate is a code of the CBAUD field.
B9600Code == 13
B115200Code == 4098
BOTHER == 4096
\* The values the callers pass.
DataBitsAsked == {5, 8}
StopBitsAsked == {1, 2}
ParityAsked == 1 .. 5
FlowAsked == 1 .. 3
XON == 17
XOFF == 19
MinLengthsAsked == {2}
\* return -242: parity/frame error reporting asked for without parity.
ParityNotEnabled == -242

VARIABLES
    platform,      \* the platform the library was built for
    cfg_device,    \* the control block the device holds
    cfg_last,      \* the last configuration call: its arguments and result
    cfg_flow,      \* the flow control mode of the last successful configureComPortControl
    cfg_snapshot   \* what the last getCurrentConfigurationU returned, if
                   \* no configuration call was made since

cfgVars == <<platform, cfg_device, cfg_last, cfg_flow, cfg_snapshot>>

\* CMSPAR (Linux) or PAREXT (Solaris): the stick-parity bit, where there is one.
StickBits(p) ==
    IF p = "linux" THEN {"CMSPAR"} ELSE IF p = "sunos" THEN {"PAREXT"} ELSE {}

\* CRTSCTS: one bit on Linux and Solaris; on the Mac termios.h defines it as
\* (CCTS_OFLOW | CRTS_IFLOW).
CRTSCTS(p) == IF p = "apple" THEN {"CCTS_OFLOW", "CRTS_IFLOW"} ELSE {"CRTSCTS"}

\* The bits the flowctrl == 1 and flowctrl == 2 branches clear or set.
HardwareFlowBits(p) ==
    IF p = "linux" THEN CRTSCTS(p)
    ELSE IF p = "apple" THEN CRTSCTS(p) \cup {"CRTS_IFLOW", "CCTS_OFLOW"}
    ELSE {"CRTSXOFF"} \cup CRTSCTS(p)

\* Bxxx: the rate itself on the Mac, a code of the CBAUD field elsewhere.
BaudConstant(p, rate) ==
    IF p = "apple" THEN rate
    ELSE IF rate = 9600 THEN B9600Code ELSE B115200Code

\* The rate a code of the CBAUD field stands for.
RateOfCode(code) ==
    IF code = B9600Code THEN 9600 ELSE IF code = B115200Code THEN 115200 ELSE 0

\* struct termios currentconfig = {0};
ZeroedConfig(device) ==
    [iflag |-> {}, oflag |-> {}, cflag |-> {}, lflag |-> {}, csize |-> 5, cbaud |-> 0,
     ispeed |-> 0, ospeed |-> 0, vstart |-> 0, vstop |-> 0, vmin |-> 0]

\* tcgetattr(fd, &currentconfig) / ioctl(fd, TCGETS2, &currentconfig)
TcGetAttr(device) == device

\* Configurations a port may be in when the library first touches it: the
\* state a freshly opened port has, and one left by another program with
\* flow control, parity, stick parity and input translation all in use.
PriorConfigs(p) ==
    { [iflag |-> {"ICRNL"}, oflag |-> {"OPOST"}, cflag |-> {"CREAD", "CLOCAL"},
       lflag |-> {"ICANON", "ECHO"}, csize |-> 8,
       cbaud |-> IF p = "apple" THEN 0 ELSE B9600Code,
       ispeed |-> IF p = "sunos" THEN 0 ELSE 9600,
       ospeed |-> IF p = "sunos" THEN 0 ELSE 9600,
       vstart |-> XON, vstop |-> XOFF, vmin |-> 1],
      [iflag |-> {"ICRNL", "IXON", "IXOFF", "INPCK", "IGNPAR", "PARMRK", "IMAXBEL"},
       oflag |-> {}, lflag |-> {},
       cflag |-> {"CREAD", "HUPCL", "PARENB", "PARODD", "CSTOPB"}
                     \cup StickBits(p) \cup HardwareFlowBits(p),
       csize |-> 5,
       cbaud |-> IF p = "apple" THEN 0 ELSE IF p = "linux" THEN BOTHER ELSE B115200Code,
       ispeed |-> IF p = "sunos" THEN 0 ELSE IF p = "linux" THEN CustomRate ELSE 115200,
       ospeed |-> IF p = "sunos" THEN 0 ELSE IF p = "linux" THEN CustomRate ELSE 115200,
       vstart |-> 0, vstop |-> 0, vmin |-> 0] }

NoCall ==
    [op |-> "none", baud |-> 0, dataBits |-> 0, stopBits |-> 0, parity |-> 0,
     flowctrl |-> 0, ParFraError |-> FALSE, ret |-> 0,
     sets |-> 0, flushed |-> FALSE, failed |-> 0]

NoSnapshot == [taken |-> FALSE]

cfgInitOn(platforms) ==
    /\ platform \in platforms
    /\ cfg_device \in PriorConfigs(platform)
    /\ cfg_last = NoCall
    /\ cfg_flow = 0
    /\ cfg_snapshot = NoSnapshot

\* Every platform, every prior configuration.
cfgInit == cfgInitOn(Platforms)

\* The state the configuration engine has in the runs of the other subsystems.
cfgQuiet ==
    /\ platform = "apple"
    /\ cfg_device = CHOOSE d \in PriorConfigs("apple") : d.csize = 8
    /\ cfg_last = NoCall
    /\ cfg_flow = 0
    /\ cfg_snapshot = NoSnapshot

\* Lines 714-840: the baud rate.  Custom: Linux sets BOTHER and the two speeds
\* (and applies them at once with TCSETS2); the Mac hands the rate to the
\* driver with IOSSIOSPEED and leaves currentconfig as fetched; Solaris does
\* nothing.  Standard: Linux stores the Bxxx constant in c_ispeed and c_ospeed;
\* the others call cfsetspeed, which stores it in the two speeds (Mac) or in
\* the CBAUD field (Solaris).
WithBaud(p, cur, baud) ==
    IF baud = CustomBaudSentinel
    THEN IF p = "linux"
         THEN [cur EXCEPT !.cbaud = BOTHER, !.ispeed = CustomRate, !.ospeed = CustomRate]
         ELSE cur
    ELSE IF p = "linux"
         THEN [cur EXCEPT !.ispeed = BaudConstant(p, baud), !.ospeed = BaudConstant(p, baud)]
         ELSE IF p = "apple"
         THEN [cur EXCEPT !.ispeed = BaudConstant(p, baud), !.ospeed = BaudConstant(p, baud)]
         ELSE [cur EXCEPT !.cbaud = BaudConstant(p, baud)]

\* Lines 842-857: c_cflag &= ~CSIZE, then the CSx of the switch (none for a
\* value that is not 5..8, which leaves CS5).
WithDataBits(cur, dataBits) ==
    [cur EXCEPT !.csize = IF dataBits \in 5 .. 8 THEN dataBits ELSE 5]

\* Lines 859-864.
WithStopBits(cur, stopBits) ==
    IF stopBits = 1
    THEN [cur EXCEPT !.cflag = @ \ {"CSTOPB"}]
    ELSE [cur EXCEPT !.cflag = @ \cup {"CSTOPB"}]

\* Lines 866-909: clear PARENB, PARODD and the stick bit the platform has,
\* then the switch on parity.
WithParity(p, cur, parity) ==
    LET cleared == [cur EXCEPT !.cflag = @ \ ({"PARENB", "PARODD"} \cup StickBits(p))]
        checked == [cleared EXCEPT !.iflag = @ \cup {"INPCK"}]
    IN  IF parity = 1 THEN cleared
        ELSE IF parity = 2 THEN [checked EXCEPT !.cflag = @ \cup {"PARENB", "PARODD"}]
        ELSE IF parity = 3 THEN [checked EXCEPT !.cflag = @ \cup {"PARENB"}]
        ELSE IF parity = 4
        THEN IF StickBits(p) # {}
             THEN [checked EXCEPT !.cflag = @ \cup {"PARENB", "PARODD"} \cup StickBits(p)]
             ELSE checked
        ELSE IF parity = 5
        THEN IF StickBits(p) # {}
             THEN [checked EXCEPT !.cflag = (@ \cup {"PARENB"} \cup StickBits(p)) \ {"PARODD"}]
             ELSE checked
        ELSE cleared

\* The set calls configureComPortData issues: the one at line 723 for a custom
\* rate on Linux, and the final one (line 913 or 917).
DataSetCalls(p, baud) == IF p = "linux" /\ baud = CustomBaudSentinel THEN 2 ELSE 1

\* configureComPortData: fetch, change, write back, discard both queues
\* (lines 926-930), return 0.
configureComPortData(baud, dataBits, stopBits, parity) ==
    LET fetched == TcGetAttr(cfg_device)
        changed == WithParity(platform,
                       WithStopBits(WithDataBits(WithBaud(platform, fetched, baud),
                                                 dataBits), stopBits), parity)
    IN  /\ cfg_device' = changed
        /\ cfg_last' = [NoCall EXCEPT !.op = "configureComPortData", !.baud = baud,
                                      !.dataBits = dataBits, !.stopBits = stopBits,
                                      !.parity = parity, !.ret = 0,
                                      !.sets = DataSetCalls(platform, baud),
                                      !.flushed = TRUE]
        /\ cfg_snapshot' = NoSnapshot
        /\ UNCHANGED <<platform, cfg_flow>>

\* Lines 972-1007: flow control.
WithFlowControl(p, cur, flowctrl) ==
    IF flowctrl = 1
    THEN [cur EXCEPT !.iflag = @ \ {"IXON", "IXOFF"},
                     !.cflag = @ \ HardwareFlowBits(p)]
    ELSE IF flowctrl = 2
    THEN [cur EXCEPT !.iflag = @ \ {"IXON", "IXOFF"},
                     !.cflag = @ \cup HardwareFlowBits(p)]
    ELSE IF flowctrl = 3
    THEN [cur EXCEPT !.cflag = @ \ CRTSCTS(p),
                     !.iflag = @ \cup {"IXON", "IXOFF"},
                     !.vstart = XON, !.vstop = XOFF]
    ELSE cur

\* Lines 1018-1030: the parity-error policy.  The branch for reporting
\* disabled sets IGNPAR and PARMRK and then clears both.
WithParityErrorPolicy(cur, ParFraError) ==
    IF ParFraError
    THEN [cur EXCEPT !.iflag = (@ \ {"IGNPAR"}) \cup {"PARMRK"}]
    ELSE [cur EXCEPT !.iflag = ((@ \cup {"IGNPAR"}) \cup {"PARMRK"}) \ {"IGNPAR", "PARMRK"}]

\* Lines 1035-1039.
WithOverflowPolicy(cur, overFlowErr) ==
    IF overFlowErr
    THEN [cur EXCEPT !.iflag = @ \cup {"IMAXBEL"}]
    ELSE [cur EXCEPT !.iflag = @ \ {"IMAXBEL"}]

\* A test that lets every call through.
ParityCheckSkipped(cur) == TRUE

\* Line 1012 tests (c_cflag & PARENB) == PARENB; the check at line 1010 fails
\* the call when reporting is asked for and this is false.
ParityEnabled(cur) == "PARENB" \in cur.cflag

\* configureComPortControl: fetch, flow control, return -242 when error
\* reporting is asked for and PARENB is clear (no set call was made yet),
\* else the two policies, write back, discard both queues (lines 1062-1066),
\* return 0.
configureComPortControl(flowctrl, ParFraError, overFlowErr) ==
    LET fetched == TcGetAttr(cfg_device)
        flowed == WithFlowControl(platform, fetched, flowctrl)
        called == [NoCall EXCEPT !.op = "configureComPortControl", !.flowctrl = flowctrl,
                                 !.ParFraError = ParFraError]
    IN  /\ cfg_snapshot' = NoSnapshot
        /\ IF ParFraError /\ ~ParityEnabled(flowed)
           THEN /\ cfg_last' = [called EXCEPT !.ret = ParityNotEnabled]
                /\ UNCHANGED <<cfg_device, cfg_flow>>
           ELSE /\ cfg_device' = WithOverflowPolicy(
                                     WithParityErrorPolicy(flowed, ParFraError), overFlowErr)
                /\ cfg_last' = [called EXCEPT !.ret = 0, !.sets = 1, !.flushed = TRUE]
                /\ cfg_flow' = flowctrl
        /\ UNCHANGED platform

\* setMinDataLength: fetch, c_cc[VMIN] = numOfBytes, write back, return 0
\* (lines 1489-1509 hold no TCFLSH and no tcflush).
setMinDataLength(numOfBytes) ==
    /\ cfg_device' = [TcGetAttr(cfg_device) EXCEPT !.vmin = numOfBytes]
    /\ cfg_last' = [NoCall EXCEPT !.op = "setMinDataLength", !.ret = 0, !.sets = 1,
                                  !.flushed = FALSE]
    /\ cfg_snapshot' = NoSnapshot
    /\ UNCHANGED <<platform, cfg_flow>>

\* getCurrentConfigurationU: the flag words and control characters, and on
\* Linux alone c_ispeed and c_ospeed (settings[23], settings[24]).
getCurrentConfigurationU ==
    /\ cfg_snapshot' =
           [taken |-> TRUE,
            iflag |-> cfg_device.iflag, oflag |-> cfg_device.oflag,
            cflag |-> cfg_device.cflag, lflag |-> cfg_device.lflag,
            csize |-> cfg_device.csize, cbaud |-> cfg_device.cbaud,
            vstart |-> cfg_device.vstart, vstop |-> cfg_device.vstop,
            vmin |-> cfg_device.vmin,
            speeds |-> platform = "linux",
            ispeed |-> IF platform = "linux" THEN cfg_device.ispeed ELSE 0,
            ospeed |-> IF platform = "linux" THEN cfg_device.ospeed ELSE 0]
    /\ cfg_snapshot' # cfg_snapshot
    /\ UNCHANGED <<platform, cfg_device, cfg_last, cfg_flow>>

\* The error numbers a failing get or set call leaves in errno.
ConfigErrnos == {EIO}

\* The get call at the head of an operation fails with e: each of the three
\* returns negative * errno at once (lines 695-711, 953-969, 1470-1486).
GetFails(op, e) ==
    /\ cfg_last' = [NoCall EXCEPT !.op = op, !.ret = -e, !.failed = e]
    /\ cfg_snapshot' = NoSnapshot
    /\ UNCHANGED <<platform, cfg_device, cfg_flow>>

configureComPortDataGetFails(e) == GetFails("configureComPortData", e)

configureComPortControlGetFails(e) == GetFails("configureComPortControl", e)

setMinDataLengthGetFails(e) == GetFails("setMinDataLength", e)

\* Lines 722-738: the call that applies a custom rate fails with e (TCSETS2
\* on Linux, IOSSIOSPEED on the Mac; Solaris makes no call here).
configureComPortDataSpeedFails(e) ==
    /\ platform \in {"linux", "apple"}
    /\ cfg_last' = [NoCall EXCEPT !.op = "configureComPortData",
                                  !.baud = CustomBaudSentinel, !.ret = -e, !.failed = e,
                                  !.sets = IF platform = "linux" THEN 1 ELSE 0]
    /\ cfg_snapshot' = NoSnapshot
    /\ UNCHANGED <<platform, cfg_device, cfg_flow>>

\* Lines 716-738: what the device holds once the call that applies a custom
\* rate has succeeded.  On Linux it is currentconfig with BOTHER and the two
\* speeds; on the Mac IOSSIOSPEED gives the driver the rate and touches
\* nothing else.
AfterCustomRateCall(p, device, fetched) ==
    IF p = "linux" THEN WithBaud(p, fetched, CustomBaudSentinel)
    ELSE IF p = "apple" THEN [device EXCEPT !.ispeed = CustomRate, !.ospeed = CustomRate]
    ELSE device

\* Lines 911-923: what configureComPortData does with a final set call that
\* failed with e.  Linux calls ioctl(fd, TCSETS2, &currentconfig) as a
\* statement and goes on; the others test ret and return negative * errno.
DataSetResult(p, e) == IF p = "linux" THEN 0 ELSE -e

\* configureComPortData whose final set call fails with e, whatever the data
\* bits, stop bits and parity asked for.  The device keeps
\* its configuration, but for the custom rate applied at line 723 or 733.  On
\* Linux the operation goes on to the flush and to return 0.
configureComPortDataSetFails(baud, e) ==
    LET fetched == TcGetAttr(cfg_device)
    IN  /\ cfg_device' = IF baud = CustomBaudSentinel
                         THEN AfterCustomRateCall(platform, cfg_device, fetched)
                         ELSE cfg_device
        /\ cfg_last' = [NoCall EXCEPT !.op = "configureComPortData", !.baud = baud,
                                      !.ret = DataSetResult(platform, e),
                                      !.sets = DataSetCalls(platform, baud),
                                      !.flushed = (platform = "linux"),
                                      !.failed = e]
        /\ cfg_snapshot' = NoSnapshot
        /\ UNCHANGED <<platform, cfg_flow>>

\* Lines 1041-1059: configureComPortControl whose set call fails with e.
configureComPortControlSetFails(ParFraError, e) ==
    /\ ~(ParFraError /\ ~ParityEnabled(TcGetAttr(cfg_device)))
    /\ cfg_last' = [NoCall EXCEPT !.op = "configureComPortControl",
                                  !.ParFraError = ParFraError,
                                  !.ret = -e, !.sets = 1, !.failed = e]
    /\ cfg_snapshot' = NoSnapshot
    /\ UNCHANGED <<platform, cfg_device, cfg_flow>>

\* Lines 1491-1507: setMinDataLength whose set call fails with e.
setMinDataLengthSetFails(e) ==
    /\ cfg_last' = [NoCall EXCEPT !.op = "setMinDataLength", !.ret = -e, !.sets = 1,
                                  !.failed = e]
    /\ cfg_snapshot' = NoSnapshot
    /\ UNCHANGED <<platform, cfg_device, cfg_flow>>

\* Lines 1159-1185: the get call of getCurrentConfigurationU fails with e.
\* The result is a one-element array holding the literal -1.
getCurrentConfigurationUFails(e) ==
    /\ cfg_snapshot' = [taken |-> FALSE, failed |-> e, array |-> <<-1>>]
    /\ cfg_snapshot' # cfg_snapshot
    /\ UNCHANGED <<platform, cfg_device, cfg_last, cfg_flow>>

(***************************************************************************)
(* The port monitor: port_monitor_info, port_monitor_index, and the        *)
(* register and unregister operations, which take the same global mutex as *)
(* the listener registry.                                                  *)
(***************************************************************************)
\* The threads of the managed runtime that register and unregister monitors.
MonCallers == {3, 4}
\* The descriptors of the monitored devices, one device each.
MonFDs == {1, 2}
\* The names pthread_create gives the monitor threads: the thread made for
\* port_monitor_info[x] is x + 1.
MonThreadIds == 1 .. MAX_NUM_THREADS

VARIABLES
    port_monitor_index,  \* int port_monitor_index
    port_monitor_info,   \* struct port_info port_monitor_info[MAX_NUM_THREADS]
    pm_caller,           \* per caller: where it is in its operation, and its locals
    pm_thread,           \* per monitor thread: "none", "running", "exited", "joined"
    pm_ub                \* the undefined behaviour the monitor ran into, or "none"

pmVars == <<port_monitor_index, port_monitor_info, pm_caller, pm_thread, pm_ub>>

\* struct port_info port_monitor_info[MAX_NUM_THREADS] = { {0} };
ZeroMonitor == [fd |-> 0, thread_id |-> 0, thread_exit |-> 0]

IdleMonCaller ==
    [pc |-> "idle", op |-> "none", fd |-> 0, x |-> 0, thread_id |-> 0, ret |-> 0,
     duplicate |-> FALSE]

AbsentMonCaller == [IdleMonCaller EXCEPT !.pc = "absent"]

pmInitWith(callers) ==
    /\ port_monitor_index = 0
    /\ port_monitor_info = [x \in Slots |-> ZeroMonitor]
    /\ pm_caller = [c \in MonCallers |->
                       IF c \in callers THEN IdleMonCaller ELSE AbsentMonCaller]
    /\ pm_thread = [t \in MonThreadIds |-> "none"]
    /\ pm_ub = "none"

pmInit == pmInitWith(MonCallers)

\* The state of the monitor in the runs of the other subsystems.
pmQuiet == pmInitWith({})

\* for (x=0; x < MAX_NUM_THREADS; x++) { if(ptr->fd == fd) break; ptr++; }
FindMonitor(fd) ==
    IF \E x \in Slots : port_monitor_info[x].fd = fd
    THEN CHOOSE x \in Slots :
             /\ port_monitor_info[x].fd = fd
             /\ \A y \in Slots : port_monitor_info[y].fd = fd => x <= y
    ELSE PastTheEnd

\* The device has a monitor: an entry of its descriptor whose thread runs.
MonitorActive(fd) ==
    \E x \in Slots :
        /\ port_monitor_info[x].fd = fd
        /\ port_monitor_info[x].thread_id \in MonThreadIds

MonReturn(c, op, ret) == [IdleMonCaller EXCEPT !.op = op, !.ret = ret,
                                               !.fd = pm_caller[c].fd,
                                               !.duplicate = pm_caller[c].duplicate]

\* A step of the monitor that is undefined behaviour: a write outside
\* port_monitor_info.  The run ends there.
MonUndefined(cause) ==
    /\ pm_ub' = cause
    /\ UNCHANGED <<port_monitor_index, port_monitor_info, pm_caller, pm_thread, mutex>>

\* A registration that does not take the mutex.
RegisterBeginUnlocked(c, fd) ==
    /\ pm_ub = "none"
    /\ pm_caller[c].pc = "idle"
    /\ pm_caller' = [pm_caller EXCEPT ![c] =
                         [IdleMonCaller EXCEPT !.pc = "rg_store", !.op = "register",
                                               !.fd = fd,
                                               !.duplicate = MonitorActive(fd)]]
    /\ UNCHANGED <<port_monitor_index, port_monitor_info, pm_thread, pm_ub, mutex>>

\* registerPortMonitorListener, lines 1830-1843: pthread_mutex_lock,
\* NewGlobalRef, the fields of params.  The table is not searched for the
\* descriptor or the port name.
RegisterBegin(c, fd) ==
    /\ pm_ub = "none"
    /\ pm_caller[c].pc = "idle"
    /\ mutex = 0
    /\ mutex' = c
    /\ pm_caller' = [pm_caller EXCEPT ![c] =
                         [IdleMonCaller EXCEPT !.pc = "rg_store", !.op = "register",
                                               !.fd = fd,
                                               !.duplicate = MonitorActive(fd)]]
    /\ UNCHANGED <<port_monitor_index, port_monitor_info, pm_thread, pm_ub>>

\* Lines 1832-1838: NewGlobalRef returns NULL: unlock, return -240.
RegisterNoGlobalRef(c, fd) ==
    /\ pm_ub = "none"
    /\ pm_caller[c].pc = "idle"
    /\ mutex = 0
    /\ pm_caller' = [pm_caller EXCEPT ![c] =
                         [IdleMonCaller EXCEPT !.op = "register", !.fd = fd,
                                               !.ret = NoGlobalRef,
                                               !.duplicate = MonitorActive(fd)]]
    /\ UNCHANGED <<port_monitor_index, port_monitor_info, pm_thread, pm_ub, mutex>>

\* Line 1846: port_monitor_info[port_monitor_index] = params; no bound on
\* port_monitor_index is checked.  params.thread_id was never assigned.
RegisterStore(c) ==
    /\ pm_ub = "none"
    /\ pm_caller[c].pc = "rg_store"
    /\ IF port_monitor_index \in Slots
       THEN /\ port_monitor_info' =
                   [port_monitor_info EXCEPT ![port_monitor_index] =
                       [fd |-> pm_caller[c].fd, thread_id |-> Uninit, thread_exit |-> 0]]
            /\ pm_caller' = [pm_caller EXCEPT ![c].pc = "rg_create",
                                              ![c].x = port_monitor_index]
            /\ UNCHANGED <<port_monitor_index, pm_thread, pm_ub, mutex>>
       ELSE MonUndefined("write outside the table")

\* Line 1852: pthread_create(&thread_id, NULL, &port_monitor, arg).
RegisterCreate(c) ==
    /\ pm_ub = "none"
    /\ pm_caller[c].pc = "rg_create"
    /\ pm_thread' = [pm_thread EXCEPT ![pm_caller[c].x + 1] = "running"]
    /\ pm_caller' = [pm_caller EXCEPT ![c].pc = "rg_save",
                                      ![c].thread_id = pm_caller[c].x + 1]
    /\ UNCHANGED <<port_monitor_index, port_monitor_info, pm_ub, mutex>>

\* Lines 1861-1866: the thread id into the entry, port_monitor_index++,
\* unlock, return 0.
RegisterSave(c) ==
    /\ pm_ub = "none"
    /\ pm_caller[c].pc = "rg_save"
    /\ port_monitor_info' = [port_monitor_info EXCEPT
                                 ![pm_caller[c].x].thread_id = pm_caller[c].thread_id]
    /\ port_monitor_index' = port_monitor_index + 1
    /\ mutex' = 0
    /\ pm_caller' = [pm_caller EXCEPT ![c] = MonReturn(c, "register", 0)]
    /\ UNCHANGED <<pm_thread, pm_ub>>

\* unregisterPortMonitorListener, lines 1884-1893 (1931-1940): lock and scan.
UnregisterBegin(c, fd) ==
    /\ pm_ub = "none"
    /\ pm_caller[c].pc = "idle"
    /\ mutex = 0
    /\ mutex' = c
    /\ LET x == FindMonitor(fd)
       IN  pm_caller' = [pm_caller EXCEPT ![c] =
               [IdleMonCaller EXCEPT !.pc = "un_flag", !.op = "unregister", !.fd = fd,
                                     !.x = x,
                                     !.thread_id = IF x = PastTheEnd THEN 0
                                                   ELSE port_monitor_info[x].thread_id]]
    /\ UNCHANGED <<port_monitor_index, port_monitor_info, pm_thread, pm_ub>>

\* Line 1896 (1943): ptr->thread_exit = 1, with ptr past the table when the
\* scan found nothing.
UnregisterFlag(c) ==
    /\ pm_ub = "none"
    /\ pm_caller[c].pc = "un_flag"
    /\ IF pm_caller[c].x = PastTheEnd
       THEN MonUndefined("write outside the table")
       ELSE /\ port_monitor_info' = [port_monitor_info EXCEPT
                                         ![pm_caller[c].x].thread_exit = 1]
            /\ pm_caller' = [pm_caller EXCEPT ![c].pc = "un_join"]
            /\ UNCHANGED <<port_monitor_index, pm_thread, pm_ub, mutex>>

\* The monitor thread sees its cancellation flag and ends its loop.  On
\* Linux the unregistering caller has sent it SIGUSR1 (line 1899) by then.
MonitorStops(t) ==
    /\ pm_ub = "none"
    /\ pm_thread[t] = "running"
    /\ port_monitor_info[t - 1].thread_exit = 1
    /\ pm_thread' = [pm_thread EXCEPT ![t] = "exited"]
    /\ UNCHANGED <<port_monitor_index, port_monitor_info, pm_caller, pm_ub, mutex>>

\* Lines 1908-1920 (1946-1958): pthread_join returns once the thread ended;
\* then thread_id = 0, fd = -1, unlock, return 0.
UnregisterJoin(c) ==
    /\ pm_ub = "none"
    /\ pm_caller[c].pc = "un_join"
    /\ pm_caller[c].thread_id \in MonThreadIds
    /\ pm_thread[pm_caller[c].thread_id] = "exited"
    /\ pm_thread' = [pm_thread EXCEPT ![pm_caller[c].thread_id] = "joined"]
    /\ port_monitor_info' = [port_monitor_info EXCEPT
                                 ![pm_caller[c].x].thread_id = 0,
                                 ![pm_caller[c].x].fd = FreeFd]
    /\ mutex' = 0
    /\ pm_caller' = [pm_caller EXCEPT ![c] = MonReturn(c, "unregister", 0)]
    /\ UNCHANGED <<port_monitor_index, pm_ub>>

(***************************************************************************)
(* openComPort and closeComPort.  The settings openComPort applies are     *)
(* the device's control block, cfg_device.                                 *)
(***************************************************************************)
VARIABLES
    port_open,       \* the descriptor open() returned is open in the process
    port_handle,     \* the caller was given the descriptor
    port_exclusive,  \* TIOCEXCL is in effect on the port
    port_last        \* the last call: its arguments, what the OS answered, its result

portVars == <<port_open, port_handle, port_exclusive, port_last>>

\* return -241: exclusive ownership asked for on Solaris.
ExclusiveUnsupported == -241
\* The descriptor open() returns.
PortFd == 3

NoPortCall ==
    [op |-> "none", ret |-> 0, exclusiveOwner |-> FALSE, drain |-> 0, release |-> 0,
     close |-> 0, flushed |-> FALSE]

portInit ==
    /\ port_open = FALSE
    /\ port_handle = FALSE
    /\ port_exclusive = FALSE
    /\ port_last = NoPortCall

\* struct termios settings = {0}; memset(&settings, 0, sizeof(settings));
ZeroSettings ==
    [iflag |-> {}, oflag |-> {}, cflag |-> {}, lflag |-> {}, csize |-> 5, cbaud |-> 0,
     ispeed |-> 0, ospeed |-> 0, vstart |-> 0, vstop |-> 0, vmin |-> 0]

\* Lines 425-474 and 489: the settings openComPort builds from the zeroed
\* struct.  The clears leave the zeroes; CS8, CREAD, CLOCAL, HUPCL and IGNBRK
\* are set, c_cc[VMIN] = 1, and the rate is B9600: on Linux c_ispeed and
\* c_ospeed take the constant B9600 and the CBAUD field stays zero, the others
\* call cfsetspeed(&settings, B9600).
DefaultSettings(p) ==
    LET flagged == [ZeroSettings EXCEPT !.cflag = {"CREAD", "CLOCAL", "HUPCL"},
                                        !.csize = 8, !.iflag = {"IGNBRK"}, !.vmin = 1]
    IN  WithBaud(p, flagged, 9600)

\* open() fails with e: return negative * errno (lines 393-399).
openComPortOpenFails(exclusiveOwner, e) ==
    /\ ~port_open
    /\ port_last' = [NoPortCall EXCEPT !.op = "open", !.exclusiveOwner = exclusiveOwner,
                                       !.ret = -e]
    /\ UNCHANGED <<port_open, port_handle, port_exclusive, cfgVars>>

\* Lines 403-416: exclusive ownership was asked for and TIOCEXCL fails with
\* e, or the platform is Solaris: return without closing the descriptor.
openComPortExclusiveFails(e) ==
    /\ ~port_open
    /\ port_open' = TRUE
    /\ port_last' = [NoPortCall EXCEPT !.op = "open", !.exclusiveOwner = TRUE,
                                       !.ret = IF platform = "sunos"
                                               THEN ExclusiveUnsupported ELSE -e]
    /\ UNCHANGED <<port_handle, port_exclusive, cfgVars>>

\* Lines 476-482 and 496-502: the set call fails with e: return
\* negative * errno without closing the descriptor.
openComPortSetFails(exclusiveOwner, e) ==
    /\ ~port_open
    /\ exclusiveOwner => platform # "sunos"
    /\ port_open' = TRUE
    /\ port_exclusive' = exclusiveOwner
    /\ port_last' = [NoPortCall EXCEPT !.op = "open", !.exclusiveOwner = exclusiveOwner,
                                       !.ret = -e]
    /\ UNCHANGED <<port_handle, cfgVars>>

\* openComPort with every call succeeding: open, TIOCEXCL when asked for,
\* the default settings, the flush of both queues (lines 485, 504), return fd.
openComPort(exclusiveOwner) ==
    /\ ~port_open
    /\ exclusiveOwner => platform # "sunos"
    /\ port_open' = TRUE
    /\ port_handle' = TRUE
    /\ port_exclusive' = exclusiveOwner
    /\ cfg_device' = DefaultSettings(platform)
    /\ port_last' = [NoPortCall EXCEPT !.op = "open", !.exclusiveOwner = exclusiveOwner,
                                       !.ret = PortFd, !.flushed = TRUE]
    /\ UNCHANGED <<platform, cfg_last, cfg_flow, cfg_snapshot>>

\* A close that gives up when the drain fails.
StopsWhenDrainFails(ret) == ret >= 0

\* Lines 530-534: if(ret < 0) holds two debug prints and nothing else, so
\* the function goes on whatever the drain returned.
ProceedsAfterDrain(ret) == TRUE

\* closeComPort: the drain (TCSBRK or tcdrain), TIOCNXCL on Linux and the
\* Mac with return negative * errno when it fails, close() with the same on
\* failure, else return ret, which is the 0 close() returned.  drain is -1
\* for a drain that failed; release and close are the errno of the call, 0
\* for success.
closeComPort(drain, release, close) ==
    /\ port_handle
    /\ platform = "sunos" => release = 0
    /\ release # 0 => close = 0
    /\ LET called == [NoPortCall EXCEPT !.op = "close", !.drain = drain,
                                        !.release = release, !.close = close,
                                        !.exclusiveOwner = port_exclusive]
       IN  IF ~ProceedsAfterDrain(drain)
           THEN /\ port_last' = [called EXCEPT !.ret = drain]
                /\ UNCHANGED <<port_open, port_handle, port_exclusive>>
           ELSE IF release # 0
           THEN /\ port_last' = [called EXCEPT !.ret = -release]
                /\ UNCHANGED <<port_open, port_handle, port_exclusive>>
           ELSE IF close # 0
           THEN /\ port_last' = [called EXCEPT !.ret = -close]
                /\ port_exclusive' = FALSE
                /\ UNCHANGED <<port_open, port_handle>>
           ELSE /\ port_last' = [called EXCEPT !.ret = 0]
                /\ port_exclusive' = FALSE
                /\ port_open' = FALSE
                /\ port_handle' = FALSE
    /\ UNCHANGED cfgVars

(***************************************************************************)
(* Calls that run at the same time on one descriptor.  Each of the         *)
(* operations below fetches the state of the port into a local, changes    *)
(* the local and writes it back; none takes a lock, so the fetch and the   *)
(* write-back of two calls interleave.  Each operation is called once.     *)
(***************************************************************************)
VARIABLES
    rmw,    \* per operation: where its call is, its arguments, currentconfig / status
    modem   \* the modem lines asserted on the port (what TIOCMGET reads)

raceVars == <<rmw, modem>>

\* The calls named in ops are about to be made, the others are not made, and
\* the lines asserted on the port are one of the sets in lines.
raceInitWith(ops, lines) ==
    LET NoRmwCall ==
            [pc |-> "absent", dataBits |-> 0, stopBits |-> 0, flowctrl |-> 0,
             enabled |-> FALSE, currentconfig |-> ZeroSettings, status |-> {}, ret |-> 0]
    IN  /\ rmw = [op \in {"configureComPortData", "configureComPortControl",
                          "setRTS", "setDTR"} |->
                     IF op \in ops THEN [NoRmwCall EXCEPT !.pc = "idle"] ELSE NoRmwCall]
        /\ modem \in lines

\* configureComPortData, lines 692-712, and configureComPortControl, lines
\* 950-970: the get call into the local currentconfig.  The arguments of the
\* call are kept for the changes that follow.
ConfigFetch(op, dataBits, stopBits, flowctrl) ==
    /\ rmw[op].pc = "idle"
    /\ rmw' = [rmw EXCEPT ![op] =
                   [@ EXCEPT !.pc = "fetched", !.dataBits = dataBits,
                             !.stopBits = stopBits, !.flowctrl = flowctrl,
                             !.currentconfig = TcGetAttr(cfg_device)]]
    /\ UNCHANGED <<modem, cfgVars>>

\* configureComPortData, lines 746-932 for 9600 baud and no parity: the
\* changes to currentconfig, the set call, the flush, return 0.
DataApply ==
    LET call == rmw["configureComPortData"]
    IN  /\ call.pc = "fetched"
        /\ cfg_device' = WithParity(platform,
                             WithStopBits(WithDataBits(WithBaud(platform,
                                 call.currentconfig, 9600), call.dataBits),
                                 call.stopBits), 1)
        /\ rmw' = [rmw EXCEPT !["configureComPortData"].pc = "done",
                              !["configureComPortData"].ret = 0]
        /\ UNCHANGED <<modem, platform, cfg_last, cfg_flow, cfg_snapshot>>

\* configureComPortControl, lines 972-1068 with error reporting and the
\* overflow bell off: the changes to currentconfig, the set call, the flush,
\* return 0.
ControlApply ==
    LET call == rmw["configureComPortControl"]
    IN  /\ call.pc = "fetched"
        /\ cfg_device' = WithOverflowPolicy(
                             WithParityErrorPolicy(
                                 WithFlowControl(platform, call.currentconfig,
                                                 call.flowctrl), FALSE), FALSE)
        /\ rmw' = [rmw EXCEPT !["configureComPortControl"].pc = "done",
                              !["configureComPortControl"].ret = 0]
        /\ UNCHANGED <<modem, platform, cfg_last, cfg_flow, cfg_snapshot>>

\* setRTS / setDTR, lines 1083 and 1119: ioctl(fd, TIOCMGET, &status).
LineFetch(op, enabled) ==
    /\ rmw[op].pc = "idle"
    /\ rmw' = [rmw EXCEPT ![op] = [@ EXCEPT !.pc = "fetched", !.enabled = enabled,
                                            !.status = modem]]
    /\ UNCHANGED <<modem, cfgVars>>

\* Lines 1090-1105 and 1126-1140: status |= TIOCM_x or status &= ~TIOCM_x for
\* the line of the operation, ioctl(fd, TIOCMSET, &status), return 0.
LineApply(op) ==
    LET TIOCM == IF op = "setRTS" THEN "RTS" ELSE "DTR"
    IN  /\ rmw[op].pc = "fetched"
        /\ modem' = IF rmw[op].enabled THEN rmw[op].status \cup {TIOCM}
                                       ELSE rmw[op].status \ {TIOCM}
        /\ rmw' = [rmw EXCEPT ![op].pc = "done", ![op].ret = 0]
        /\ UNCHANGED cfgVars

(***************************************************************************)
(* Specifications                                                          *)
(***************************************************************************)
vars == <<rbVars, wbVars, regVars, cfgVars, pmVars, portVars, raceVars>>

Init == rbInit /\ wbInit /\ regInit /\ cfgQuiet /\ pmQuiet /\ portInit /\ raceInitWith({}, {{}})

\* readBytes: the call, then one read() outcome per step.
NextRead ==
    \/ ReadCall /\ UNCHANGED <<wbVars, regVars, cfgVars, pmVars, portVars, raceVars>>
    \/ \E len \in 1 .. ReadBufSize : ReadData(len) /\ UNCHANGED <<wbVars, regVars, cfgVars, pmVars, portVars, raceVars>>
    \/ \E len \in 1 .. ReadBufSize : ReadDataInterrupted(len) /\ UNCHANGED <<wbVars, regVars, cfgVars, pmVars, portVars, raceVars>>
    \/ \E o \in {"EAGAIN", "EOF"} : ReadEmpty(o) /\ UNCHANGED <<wbVars, regVars, cfgVars, pmVars, portVars, raceVars>>
    \/ ReadInterrupted /\ UNCHANGED <<wbVars, regVars, cfgVars, pmVars, portVars, raceVars>>
    \/ ReadError /\ UNCHANGED <<wbVars, regVars, cfgVars, pmVars, portVars, raceVars>>

\* writeBytes: the call, then one evaluation of the loop condition per step.
NextWrite ==
    \/ \E n \in 0 .. MaxWriteLen : WriteCall(n) /\ UNCHANGED <<rbVars, regVars, cfgVars, pmVars, portVars, raceVars>>
    \/ WriteNothingLeft /\ UNCHANGED <<rbVars, regVars, cfgVars, pmVars, portVars, raceVars>>
    \/ \E k \in 0 .. MaxWriteLen : WriteAccepts(k) /\ UNCHANGED <<rbVars, regVars, cfgVars, pmVars, portVars, raceVars>>
    \/ WriteInterrupted /\ UNCHANGED <<rbVars, regVars, cfgVars, pmVars, portVars, raceVars>>
    \/ \E e \in OtherErrnos : WriteFails(e) /\ UNCHANGED <<rbVars, regVars, cfgVars, pmVars, portVars, raceVars>>

\* The registry: calls of the four operations by the callers, one step of a
\* call or of a listener thread at a time.
NextReg ==
    \/ \E c \in Callers, fd \in FDs : SetUpBegin(c, "data", fd) /\ UNCHANGED <<rbVars, wbVars, thread_limit, cfgVars, pmVars, portVars, raceVars>>
    \/ \E c \in Callers, fd \in FDs : SetUpBegin(c, "event", fd) /\ UNCHANGED <<rbVars, wbVars, thread_limit, cfgVars, pmVars, portVars, raceVars>>
    \/ \E c \in Callers, k \in Kinds, fd \in FDs : SetUpNoGlobalRef(c, k, fd) /\ UNCHANGED <<rbVars, wbVars, thread_limit, cfgVars, pmVars, portVars, raceVars>>
    \/ \E c \in Callers : SetUpCreate(c) /\ UNCHANGED <<rbVars, wbVars, thread_limit, cfgVars, pmVars, portVars, raceVars>>
    \/ \E c \in Callers : SetUpSave(c) /\ UNCHANGED <<rbVars, wbVars, thread_limit, cfgVars, pmVars, portVars, raceVars>>
    \/ \E c \in Callers : SetUpWait(c) /\ UNCHANGED <<rbVars, wbVars, thread_limit, cfgVars, pmVars, portVars, raceVars>>
    \/ \E c \in Callers, fd \in FDs : DestroyBegin(c, "data", fd) /\ UNCHANGED <<rbVars, wbVars, thread_limit, cfgVars, pmVars, portVars, raceVars>>
    \/ \E c \in Callers, fd \in FDs : DestroyBegin(c, "event", fd) /\ UNCHANGED <<rbVars, wbVars, thread_limit, cfgVars, pmVars, portVars, raceVars>>
    \/ \E c \in Callers : DestroyFlag(c) /\ UNCHANGED <<rbVars, wbVars, thread_limit, cfgVars, pmVars, portVars, raceVars>>
    \/ \E c \in Callers : DestroyWake(c) /\ UNCHANGED <<rbVars, wbVars, thread_limit, cfgVars, pmVars, portVars, raceVars>>
    \/ \E c \in Callers : DestroyFlagPastTheEnd(c) /\ UNCHANGED <<rbVars, wbVars, thread_limit, cfgVars, pmVars, portVars, raceVars>>
    \/ \E c \in Callers : DestroyKillNoThread(c) /\ UNCHANGED <<rbVars, wbVars, thread_limit, cfgVars, pmVars, portVars, raceVars>>
    \/ \E c \in Callers : DestroyJoin(c) /\ UNCHANGED <<rbVars, wbVars, thread_limit, cfgVars, pmVars, portVars, raceVars>>
    \/ \E c \in Callers : DestroyJoinNoThread(c) /\ UNCHANGED <<rbVars, wbVars, thread_limit, cfgVars, pmVars, portVars, raceVars>>
    \/ \E t \in ThreadIds : DataLooperStart(t) /\ UNCHANGED <<rbVars, wbVars, thread_limit, cfgVars, pmVars, portVars, raceVars>>
    \/ \E t \in ThreadIds : EventLooperStart(t) /\ UNCHANGED <<rbVars, wbVars, thread_limit, cfgVars, pmVars, portVars, raceVars>>
    \/ \E t \in ThreadIds : DataLooperWoken(t) /\ UNCHANGED <<rbVars, wbVars, thread_limit, cfgVars, pmVars, portVars, raceVars>>
    \/ \E t \in ThreadIds : EventLooperWoken(t) /\ UNCHANGED <<rbVars, wbVars, thread_limit, cfgVars, pmVars, portVars, raceVars>>
    \/ \E t \in ThreadIds : LooperStop(t) /\ UNCHANGED <<rbVars, wbVars, thread_limit, cfgVars, pmVars, portVars, raceVars>>

SpecRead == Init /\ [][NextRead]_vars
SpecWrite == Init /\ [][NextWrite]_vars
SpecReg == Init /\ [][NextReg]_vars

\* The registry when pthread_create may fail.
NextRegFaulty ==
    \/ NextReg
    \/ \E c \in Callers : SetUpCreateFails(c) /\ UNCHANGED <<rbVars, wbVars, thread_limit, cfgVars, pmVars, portVars, raceVars>>

SpecRegFaulty == Init /\ [][NextRegFaulty]_vars

\* The registry with room for one more thread.
InitLong == rbInit /\ wbInit /\ regInitLong /\ cfgQuiet /\ pmQuiet /\ portInit /\ raceInitWith({}, {{}})
SpecRegLong == InitLong /\ [][NextReg]_vars

\* The configuration engine: one call per step, on any platform and from any
\* prior configuration of the port.
NextCfg ==
    \/ \E baud \in StandardRates \cup {CustomBaudSentinel}, dataBits \in DataBitsAsked,
          stopBits \in StopBitsAsked, parity \in ParityAsked :
           configureComPortData(baud, dataBits, stopBits, parity)
               /\ UNCHANGED <<rbVars, wbVars, regVars, pmVars, portVars, raceVars>>
    \/ \E flowctrl \in FlowAsked, ParFraError \in BOOLEAN, overFlowErr \in BOOLEAN :
           configureComPortControl(flowctrl, ParFraError, overFlowErr)
               /\ UNCHANGED <<rbVars, wbVars, regVars, pmVars, portVars, raceVars>>
    \/ \E numOfBytes \in MinLengthsAsked :
           setMinDataLength(numOfBytes) /\ UNCHANGED <<rbVars, wbVars, regVars, pmVars, portVars, raceVars>>
    \/ getCurrentConfigurationU /\ UNCHANGED <<rbVars, wbVars, regVars, pmVars, portVars, raceVars>>

InitCfg == rbInit /\ wbInit /\ regInit /\ cfgInit /\ pmQuiet /\ portInit /\ raceInitWith({}, {{}})
SpecCfg == InitCfg /\ [][NextCfg]_vars

\* The configuration engine on a device whose get and set calls may fail,
\* called with data bits the library knows (8) or not (9).  The calls that
\* succeed ask for one stop bit, no or even parity and no change of the
\* overflow policy.
NextCfgFaulty ==
    \/ \E baud \in StandardRates \cup {CustomBaudSentinel}, dataBits \in {8, 9},
          parity \in {1, 3} :
           configureComPortData(baud, dataBits, 1, parity) /\ UNCHANGED <<rbVars, wbVars, regVars, pmVars, portVars, raceVars>>
    \/ \E flowctrl \in FlowAsked, ParFraError \in BOOLEAN :
           configureComPortControl(flowctrl, ParFraError, FALSE)
               /\ UNCHANGED <<rbVars, wbVars, regVars, pmVars, portVars, raceVars>>
    \/ \E numOfBytes \in MinLengthsAsked :
           setMinDataLength(numOfBytes) /\ UNCHANGED <<rbVars, wbVars, regVars, pmVars, portVars, raceVars>>
    \/ getCurrentConfigurationU /\ UNCHANGED <<rbVars, wbVars, regVars, pmVars, portVars, raceVars>>
    \/ \E e \in ConfigErrnos :
           configureComPortDataGetFails(e) /\ UNCHANGED <<rbVars, wbVars, regVars, pmVars, portVars, raceVars>>
    \/ \E e \in ConfigErrnos :
           configureComPortControlGetFails(e) /\ UNCHANGED <<rbVars, wbVars, regVars, pmVars, portVars, raceVars>>
    \/ \E e \in ConfigErrnos :
           setMinDataLengthGetFails(e) /\ UNCHANGED <<rbVars, wbVars, regVars, pmVars, portVars, raceVars>>
    \/ \E e \in ConfigErrnos :
           configureComPortDataSpeedFails(e) /\ UNCHANGED <<rbVars, wbVars, regVars, pmVars, portVars, raceVars>>
    \/ \E baud \in StandardRates \cup {CustomBaudSentinel}, e \in ConfigErrnos :
           configureComPortDataSetFails(baud, e) /\ UNCHANGED <<rbVars, wbVars, regVars, pmVars, portVars, raceVars>>
    \/ \E ParFraError \in BOOLEAN, e \in ConfigErrnos :
           configureComPortControlSetFails(ParFraError, e)
               /\ UNCHANGED <<rbVars, wbVars, regVars, pmVars, portVars, raceVars>>
    \/ \E e \in ConfigErrnos :
           setMinDataLengthSetFails(e) /\ UNCHANGED <<rbVars, wbVars, regVars, pmVars, portVars, raceVars>>
    \/ \E e \in ConfigErrnos :
           getCurrentConfigurationUFails(e) /\ UNCHANGED <<rbVars, wbVars, regVars, pmVars, portVars, raceVars>>

SpecCfgFaulty == InitCfg /\ [][NextCfgFaulty]_vars

\* The registry with both callers active.
\* Opening and closing a port, on any platform, with every OS call of the two
\* operations succeeding or failing.
NextPort ==
    \/ \E exclusiveOwner \in BOOLEAN, e \in OtherErrnos :
           openComPortOpenFails(exclusiveOwner, e)
               /\ UNCHANGED <<rbVars, wbVars, regVars, pmVars, raceVars>>
    \/ \E e \in OtherErrnos :
           openComPortExclusiveFails(e) /\ UNCHANGED <<rbVars, wbVars, regVars, pmVars, raceVars>>
    \/ \E exclusiveOwner \in BOOLEAN, e \in OtherErrnos :
           openComPortSetFails(exclusiveOwner, e)
               /\ UNCHANGED <<rbVars, wbVars, regVars, pmVars, raceVars>>
    \/ \E exclusiveOwner \in BOOLEAN :
           openComPort(exclusiveOwner) /\ UNCHANGED <<rbVars, wbVars, regVars, pmVars, raceVars>>
    \/ \E drain \in {0, -1}, release \in {0} \cup OtherErrnos, close \in {0} \cup OtherErrnos :
           closeComPort(drain, release, close)
               /\ UNCHANGED <<rbVars, wbVars, regVars, pmVars, raceVars>>

InitPort == rbInit /\ wbInit /\ regInit /\ cfgInit /\ pmQuiet /\ portInit /\ raceInitWith({}, {{}})
SpecPort == InitPort /\ [][NextPort]_vars

\* The port monitor alone: two callers registering and unregistering monitors
\* of two devices.  The listener registry stays as constructed but for the
\* mutex, which is the one the monitor operations take.
regVarsButMutex == <<dtp_index, fd_looper_info, caller, thread, wake, used, thread_limit, ub>>

NextMon ==
    \/ \E c \in MonCallers, fd \in MonFDs :
           RegisterBegin(c, fd)
               /\ UNCHANGED <<rbVars, wbVars, regVarsButMutex, cfgVars, portVars, raceVars>>
    \/ \E c \in MonCallers, fd \in MonFDs :
           RegisterNoGlobalRef(c, fd)
               /\ UNCHANGED <<rbVars, wbVars, regVarsButMutex, cfgVars, portVars, raceVars>>
    \/ \E c \in MonCallers :
           RegisterStore(c) /\ UNCHANGED <<rbVars, wbVars, regVarsButMutex, cfgVars, portVars, raceVars>>
    \/ \E c \in MonCallers :
           RegisterCreate(c) /\ UNCHANGED <<rbVars, wbVars, regVarsButMutex, cfgVars, portVars, raceVars>>
    \/ \E c \in MonCallers :
           RegisterSave(c) /\ UNCHANGED <<rbVars, wbVars, regVarsButMutex, cfgVars, portVars, raceVars>>
    \/ \E c \in MonCallers, fd \in MonFDs :
           UnregisterBegin(c, fd)
               /\ UNCHANGED <<rbVars, wbVars, regVarsButMutex, cfgVars, portVars, raceVars>>
    \/ \E c \in MonCallers :
           UnregisterFlag(c) /\ UNCHANGED <<rbVars, wbVars, regVarsButMutex, cfgVars, portVars, raceVars>>
    \/ \E t \in MonThreadIds :
           MonitorStops(t) /\ UNCHANGED <<rbVars, wbVars, regVarsButMutex, cfgVars, portVars, raceVars>>
    \/ \E c \in MonCallers :
           UnregisterJoin(c) /\ UNCHANGED <<rbVars, wbVars, regVarsButMutex, cfgVars, portVars, raceVars>>

InitMon == rbInit /\ wbInit /\ regInit /\ cfgQuiet /\ pmInit /\ portInit /\ raceInitWith({}, {{}})
SpecMon == InitMon /\ [][NextMon]_vars

\* The listener registry and the port monitor together: two callers of the
\* listener operations, with one registration between them, and one caller of
\* the monitor operations, all three contending for the mutex.
NextTables == NextReg \/ NextMon

InitTables ==
    rbInit /\ wbInit /\ regInitWith(Callers, 1) /\ cfgQuiet /\ pmInitWith({3}) /\ portInit
        /\ raceInitWith({}, {{}})
SpecTables == InitTables /\ [][NextTables]_vars

\* configureComPortData and configureComPortControl called at the same time
\* on one descriptor, on any platform and from any prior configuration.
NextCfgRace ==
    \/ \E dataBits \in DataBitsAsked, stopBits \in StopBitsAsked :
           ConfigFetch("configureComPortData", dataBits, stopBits, 0)
               /\ UNCHANGED <<rbVars, wbVars, regVars, pmVars, portVars>>
    \/ DataApply /\ UNCHANGED <<rbVars, wbVars, regVars, pmVars, portVars>>
    \/ \E flowctrl \in FlowAsked :
           ConfigFetch("configureComPortControl", 0, 0, flowctrl)
               /\ UNCHANGED <<rbVars, wbVars, regVars, pmVars, portVars>>
    \/ ControlApply /\ UNCHANGED <<rbVars, wbVars, regVars, pmVars, portVars>>

InitCfgRace ==
    /\ rbInit /\ wbInit /\ regInit /\ cfgInit /\ pmQuiet /\ portInit
    /\ raceInitWith({"configureComPortData", "configureComPortControl"}, {{}})
SpecCfgRace == InitCfgRace /\ [][NextCfgRace]_vars

\* setRTS and setDTR called at the same time on one descriptor, from any
\* state of RTS and DTR, which the two operations drive, and of CTS, which
\* the peer drives.
NextLineRace ==
    \/ \E op \in {"setRTS", "setDTR"}, enabled \in BOOLEAN :
           LineFetch(op, enabled)
               /\ UNCHANGED <<rbVars, wbVars, regVars, pmVars, portVars>>
    \/ \E op \in {"setRTS", "setDTR"} :
           LineApply(op) /\ UNCHANGED <<rbVars, wbVars, regVars, pmVars, portVars>>

InitLineRace ==
    /\ rbInit /\ wbInit /\ regInit /\ cfgQuiet /\ pmQuiet /\ portInit
    /\ raceInitWith({"setRTS", "setDTR"}, SUBSET {"RTS", "DTR", "CTS"})
SpecLineRace == InitLineRace /\ [][NextLineRace]_vars

InitConcurrent == rbInit /\ wbInit /\ regInitConcurrent /\ cfgQuiet /\ pmQuiet /\ portInit /\ raceInitWith({}, {{}})
SpecRegConcurrent == InitConcurrent /\ [][NextReg]_vars

(***************************************************************************)
(* Claims: readBytes                                                       *)
(***************************************************************************)
\* The reads of the finished call were k >= 1 reads that returned data while
\* interrupted, then one read that returned data without interruption.
InterruptedThenData ==
    /\ rb_pc = "done"
    /\ Len(rb_outcomes) >= 2
    /\ rb_outcomes[Len(rb_outcomes)] = "data"
    /\ \A j \in 1 .. Len(rb_outcomes) - 1 : rb_outcomes[j] = "dataEINTR"

\* C1: after k >= 1 interrupted reads with data and a final read with data,
\* the array readBytes returns is the in-order concatenation of the bytes of
\* all k + 1 reads.
C1_ConcatenatesPartialReads ==
    InterruptedThenData => (rb_kind = "array" /\ rb_dataRead = rb_delivered)

(***************************************************************************)
(* Claims: writeBytes                                                      *)
(***************************************************************************)
\* C2: writeBytes returns success only if the OS accepted all n bytes.
C2_SuccessMeansAllAccepted ==
    (wb_pc = "done" /\ wb_result = 0) => Len(wb_accepted) = wb_n

\* C3: once a write() failed with an errno other than EINTR, writeBytes makes
\* no further write() call and returns the negated errno, however many bytes
\* were outstanding.
C3_ErrorAbortsWithCode ==
    /\ wb_after_fail = 0
    /\ (wb_pc = "done" /\ wb_failed # 0) => wb_result = -wb_failed

(***************************************************************************)
(* Claims: the listener registry                                           *)
(***************************************************************************)
\* C4: a set-up call made for a kind that has no registered listener on the
\* entry (a first registration, one reusing an existing entry, one made again
\* after a stop of the kind) never returns success before the thread it
\* spawned has set its readiness flag.
C4_SuccessOnlyAfterReady ==
    \A c \in Callers : ~(caller[c].early /\ ~caller[c].listening)

\* A step of some listener thread is possible.
SomeLooperCanStep ==
    \E t \in ThreadIds :
        \/ ENABLED DataLooperStart(t)
        \/ ENABLED EventLooperStart(t)
        \/ ENABLED DataLooperWoken(t)
        \/ ENABLED EventLooperWoken(t)
        \/ ENABLED LooperStop(t)

\* C5: no deadlock: a destroy call made while a listener of the kind was
\* running for the descriptor, and now waiting in pthread_join, can return or
\* some listener thread can still take a step towards it.
C5_DestroyNeverStuck ==
    \A c \in Callers :
        (caller[c].pc = "ds_join" /\ caller[c].listening) =>
            \/ ENABLED DestroyJoin(c)
            \/ ENABLED DestroyJoinNoThread(c)
            \/ SomeLooperCanStep

\* C6: a registration for a further descriptor, made when all MAX_NUM_THREADS
\* entries hold a descriptor, writes no entry outside the table (it fails with
\* a capacity error instead).
C6_FullTableRejects ==
    ~(ub.cause = "write outside the table" /\ ub.op = "setUp"
      /\ ub.live = MAX_NUM_THREADS)

\* C7: a registration for a new descriptor made while fewer than
\* MAX_NUM_THREADS entries hold a descriptor finds a slot, whatever was
\* registered and stopped before: it never runs off the table.
C7_FreedSlotReusable ==
    ~(ub.cause = "write outside the table" /\ ub.op = "setUp"
      /\ ub.live < MAX_NUM_THREADS)

\* No two entries hold the same descriptor.
AtMostOneLiveEntry ==
    \A x, y \in Slots :
        (x # y /\ fd_looper_info[x].fd \in FDs) =>
            fd_looper_info[x].fd # fd_looper_info[y].fd

\* A step of a set-up call that found an entry for its descriptor: the call
\* works on that entry, and neither dtp_index nor any entry's descriptor changes.
ReuseAllocatesNothing ==
    \A c \in Callers :
        (caller'[c] # caller[c] /\ caller'[c].op = "setUp" /\ caller'[c].entry_found) =>
            /\ fd_looper_info'[caller'[c].arg].fd = caller'[c].fd
            /\ dtp_index' = dtp_index
            /\ \A x \in Slots : fd_looper_info'[x].fd = fd_looper_info[x].fd

\* C8: slot acquisition is idempotent: a registration for a descriptor that
\* has an entry uses that entry and allocates nothing, and at most one entry
\* exists per descriptor at any time.
C8_AcquireIdempotent == [](AtMostOneLiveEntry) /\ [][ReuseAllocatesNothing]_vars

\* Witness for C8: a second registration (the other kind) reused the entry of
\* its descriptor and both listeners are registered on it.
C8_Witness ==
    \E c \in Callers :
        /\ caller[c].pc = "su_wait"
        /\ caller[c].entry_found
        /\ fd_looper_info[caller[c].arg].data_thread_id # 0
        /\ fd_looper_info[caller[c].arg].event_thread_id # 0

\* C9: an entry has at most one listener thread of each kind at any time.
C9_OneListenerPerKind ==
    \A t, u \in ThreadIds :
        (t # u /\ Alive(t) /\ Alive(u) /\ thread[t].slot = thread[u].slot) =>
            thread[t].kind # thread[u].kind

\* C10: an entry is marked free only when no listener thread exists for it.
C10_FreedOnlyWithoutListeners ==
    \A t \in ThreadIds :
        Alive(t) => fd_looper_info[thread[t].slot].fd # FreeFd

\* C11: a caller about to call pthread_create in a register operation does
\* not hold the registry mutex.
C11_NoLockAcrossSpawn ==
    \A c \in Callers : caller[c].pc = "su_create" => mutex # c

\* The cancellation flag of a kind in an entry.
CancelFlag(entry, kind) ==
    IF kind = "data" THEN entry.data_thread_exit ELSE entry.event_thread_exit

\* C12: in a stop operation the cancellation flag is set before the wake is
\* triggered and the wake is issued before the join begins: a caller at the
\* wake or in the join has the flag of its kind set in the entry, a caller in
\* the join has issued the wake, and a data listener whose wake pipe holds a
\* byte finds its cancellation flag set.
C12_FlagWakeJoinOrder ==
    /\ \A c \in Callers :
          caller[c].pc \in {"ds_wake", "ds_join"} =>
              CancelFlag(fd_looper_info[caller[c].x], caller[c].kind) = 1
    /\ \A c \in Callers : caller[c].pc = "ds_join" => caller[c].wake_sent # "none"
    /\ \A t \in wake : CancelFlag(fd_looper_info[thread[t].slot], "data") = 1

\* Witness for C12: a stop of a running data listener is in its join, and the
\* byte it wrote is in the listener's wake pipe.
C12_Witness ==
    \E c \in Callers :
        /\ caller[c].pc = "ds_join"
        /\ caller[c].kind = "data"
        /\ caller[c].listening
        /\ caller[c].thread_id \in wake

\* C13: no stop operation delivers a signal to a listener thread.
C13_NoSignalDelivered ==
    \A c \in Callers : caller[c].wake_sent # "signal"

\* C14: a registration whose pthread_create failed does not enter the wait
\* for the readiness flag.
C14_NoWaitAfterFailedCreate ==
    \A c \in Callers : caller[c].pc = "su_wait" => caller[c].create_ret = 0

(***************************************************************************)
(* Claims: the port-configuration engine                                   *)
(***************************************************************************)
\* The bits of c_iflag and c_cflag an operation is responsible for.
OwnIflag(op) ==
    IF op = "configureComPortData" THEN {"INPCK"}
    ELSE IF op = "configureComPortControl"
    THEN {"IXON", "IXOFF", "IGNPAR", "PARMRK", "IMAXBEL"}
    ELSE {}

OwnCflag(op, p) ==
    IF op = "configureComPortData"
    THEN {"PARENB", "PARODD", "CSTOPB"} \cup StickBits(p)
    ELSE IF op = "configureComPortControl" THEN HardwareFlowBits(p)
    ELSE {}

\* A step leaves alone every bit and control character outside the fields of
\* the operation that made it.
FrameKept ==
    LET op == cfg_last'.op
    IN  /\ cfg_device'.iflag \ OwnIflag(op) = cfg_device.iflag \ OwnIflag(op)
        /\ cfg_device'.cflag \ OwnCflag(op, platform) = cfg_device.cflag \ OwnCflag(op, platform)
        /\ cfg_device'.oflag = cfg_device.oflag
        /\ cfg_device'.lflag = cfg_device.lflag
        /\ op # "configureComPortData" =>
               /\ cfg_device'.csize = cfg_device.csize
               /\ cfg_device'.cbaud = cfg_device.cbaud
               /\ cfg_device'.ispeed = cfg_device.ispeed
               /\ cfg_device'.ospeed = cfg_device.ospeed
        /\ op # "configureComPortControl" =>
               /\ cfg_device'.vstart = cfg_device.vstart
               /\ cfg_device'.vstop = cfg_device.vstop
        /\ op # "setMinDataLength" => cfg_device'.vmin = cfg_device.vmin

\* C15: every configuration operation writes back the control block it
\* fetched with only its own fields changed, for any prior configuration.
C15_OnlyOwnFieldsChange == [][FrameKept]_vars

\* Witness for C15: configureComPortControl succeeded on a port whose prior
\* configuration had unrelated bits set, and changed the flow control bits.
C15_Witness ==
    /\ cfg_last.op = "configureComPortControl"
    /\ cfg_last.ret = 0
    /\ cfg_last.flowctrl = 3
    /\ "HUPCL" \in cfg_device.cflag
    /\ "ICRNL" \in cfg_device.iflag
    /\ "PARENB" \in cfg_device.cflag

\* What a snapshot says about baud, data bits, stop bits and parity.
DecodedBaud(p, snap) ==
    IF p = "linux"
    THEN IF snap.cbaud = BOTHER THEN snap.ospeed ELSE RateOfCode(snap.cbaud)
    ELSE IF p = "sunos" THEN RateOfCode(snap.cbaud)
    ELSE IF snap.speeds THEN snap.ospeed ELSE 0

DecodedStopBits(snap) == IF "CSTOPB" \in snap.cflag THEN 2 ELSE 1

DecodedParity(p, snap) ==
    IF "PARENB" \notin snap.cflag THEN 1
    ELSE IF StickBits(p) # {} /\ StickBits(p) \subseteq snap.cflag
    THEN IF "PARODD" \in snap.cflag THEN 4 ELSE 5
    ELSE IF "PARODD" \in snap.cflag THEN 2 ELSE 3

\* The combinations a platform supports: no custom rate on Solaris, no mark
\* or space parity where there is no stick-parity bit.
SupportedCombination(p, call) ==
    /\ ~(p = "sunos" /\ call.baud = CustomBaudSentinel)
    /\ ~(StickBits(p) = {} /\ call.parity \in {4, 5})

\* C16: a snapshot taken right after a successful configureComPortData of a
\* supported combination decodes to the baud, data bits, stop bits and parity
\* applied.
C16_ApplyThenReadRoundTrip ==
    (/\ cfg_snapshot.taken
     /\ cfg_last.op = "configureComPortData"
     /\ cfg_last.ret = 0
     /\ SupportedCombination(platform, cfg_last)) =>
        /\ DecodedBaud(platform, cfg_snapshot) =
               (IF cfg_last.baud = CustomBaudSentinel THEN CustomRate ELSE cfg_last.baud)
        /\ cfg_snapshot.csize = cfg_last.dataBits
        /\ DecodedStopBits(cfg_snapshot) = cfg_last.stopBits
        /\ DecodedParity(platform, cfg_snapshot) = cfg_last.parity

\* C17: on a platform without custom-baud support (Solaris)
\* configureComPortData called with the custom-baud sentinel never succeeds.
C17_CustomBaudUnsupportedReported ==
    ~(/\ platform = "sunos"
      /\ cfg_last.op = "configureComPortData"
      /\ cfg_last.baud = CustomBaudSentinel
      /\ cfg_last.ret = 0)

\* C18: on a platform with no stick-parity bit configureComPortData called
\* with mark or space parity never succeeds.
C18_StickParityUnsupportedReported ==
    ~(/\ StickBits(platform) = {}
      /\ cfg_last.op = "configureComPortData"
      /\ cfg_last.parity \in {4, 5}
      /\ cfg_last.ret = 0)

\* C19: exactly the flow control mode of the last successful
\* configureComPortControl is active: none, no enabling bit set; hardware, the
\* hardware bits set and the software bits clear; software, the software bits
\* set and every hardware bit clear.
C19_OneFlowControlMode ==
    LET software == {"IXON", "IXOFF"}
        hardware == HardwareFlowBits(platform)
    IN  /\ cfg_flow = 1 =>
               cfg_device.iflag \cap software = {} /\ cfg_device.cflag \cap hardware = {}
        /\ cfg_flow = 2 =>
               cfg_device.iflag \cap software = {} /\ hardware \subseteq cfg_device.cflag
        /\ cfg_flow = 3 =>
               software \subseteq cfg_device.iflag /\ cfg_device.cflag \cap hardware = {}

\* C20: after a successful configureComPortControl the parity-error policy
\* is: reporting enabled, PARMRK set and IGNPAR clear; reporting disabled,
\* IGNPAR set and PARMRK clear.
C20_ParityErrorPolicy ==
    (cfg_last.op = "configureComPortControl" /\ cfg_last.ret = 0) =>
        IF cfg_last.ParFraError
        THEN "PARMRK" \in cfg_device.iflag /\ "IGNPAR" \notin cfg_device.iflag
        ELSE "IGNPAR" \in cfg_device.iflag /\ "PARMRK" \notin cfg_device.iflag

\* C21: configureComPortControl asked to report parity errors on a port whose
\* control block has parity disabled returns the parity-not-enabled failure
\* and issues no set call, so the device configuration, flow control
\* included, is what it was before the call.
ControlCallStep ==
    /\ cfg_last'.op = "configureComPortControl"
    /\ cfg_snapshot' = NoSnapshot
    /\ cfg_last'.failed = 0

ParityCheckRejects ==
    (ControlCallStep /\ cfg_last'.ParFraError /\ "PARENB" \notin cfg_device.cflag)
        => /\ cfg_last'.ret = ParityNotEnabled
           /\ cfg_last'.sets = 0
           /\ cfg_device' = cfg_device
           /\ cfg_flow' = cfg_flow

C21_ParityCheckBeforeAnySet == [][ParityCheckRejects]_vars

\* The call was rejected while asking for software flow control on a port
\* that has none.
C21_Witness ==
    /\ cfg_last.op = "configureComPortControl"
    /\ cfg_last.ret = ParityNotEnabled
    /\ cfg_last.flowctrl = 3
    /\ "IXON" \notin cfg_device.iflag

\* C22: every successful configureComPortData, configureComPortControl and
\* setMinDataLength discards the input and the output queue after its last
\* set call and before it returns.
C22_SuccessDiscardsQueues ==
    (cfg_last.op \in {"configureComPortData", "configureComPortControl", "setMinDataLength"}
        /\ cfg_last.ret = 0)
        => cfg_last.flushed

\* C23: in configureComPortData, configureComPortControl and
\* setMinDataLength, on every platform, a get or set call that fails with OS
\* error e makes the operation return a failure carrying e; none of them
\* returns success after a failed get or set.
C23_FailedCallSurfaces ==
    cfg_last.failed # 0 => cfg_last.ret = -cfg_last.failed

\* C24: when the get call inside getCurrentConfigurationU fails with OS
\* error e, the failure result carries e and not a fixed value.
C24_SnapshotFailureCarriesErrno ==
    ("failed" \in DOMAIN cfg_snapshot) => cfg_snapshot.array = <<-cfg_snapshot.failed>>

\* C25: whenever writeBytes returns success, the drain was issued after the
\* last write call of that invocation and before the return: a call that
\* returned 0 has drained, and a call that has drained makes no further write.
C25_SuccessMeansDrained ==
    /\ (wb_pc = "done" /\ wb_result = 0) => wb_drained
    /\ wb_drained => (wb_pc = "done" /\ wb_result = 0)

\* A success that took more than one write call.
C25_Witness ==
    /\ wb_pc = "done"
    /\ wb_result = 0
    /\ wb_calls >= 2
    /\ wb_drained

\* C26: with no partial data held, readBytes retries a read that was
\* interrupted before any byte arrived and never surfaces the interruption;
\* "no data pending" and end of stream each return an empty array; any other
\* read failure returns null, never an empty array.
LastOutcome == rb_outcomes[Len(rb_outcomes)]

C27_OneMonitorPerDevice ==
    /\ \A x, y \in Slots :
           (port_monitor_info[x].fd \in MonFDs
                /\ port_monitor_info[x].fd = port_monitor_info[y].fd) => x = y
    /\ \A c \in MonCallers :
           (pm_caller[c].pc = "idle" /\ pm_caller[c].op = "register"
                /\ pm_caller[c].duplicate) => pm_caller[c].ret < 0

\* C28: in closeComPort a failure of the initial drain does not abort the
\* close: the call goes on to release exclusive ownership and to close the
\* descriptor, and its result is the one those two steps give.
C28_DrainFailureDoesNotAbort ==
    (port_last.op = "close" /\ port_last.drain < 0) =>
        /\ port_last.ret = IF port_last.release # 0 THEN -port_last.release
                           ELSE IF port_last.close # 0 THEN -port_last.close
                           ELSE 0
        /\ port_last.release = 0 => ~port_exclusive
        /\ (port_last.release = 0 /\ port_last.close = 0) => (~port_open /\ ~port_handle)

\* A port held exclusively was closed with success although the drain failed.
C28_Witness ==
    /\ port_last.op = "close"
    /\ port_last.drain < 0
    /\ port_last.exclusiveOwner
    /\ port_last.ret = 0
    /\ ~port_open
    /\ ~port_exclusive

\* C29: every write a register or unregister operation makes to an entry's
\* descriptor and thread-identity fields, to dtp_index or port_monitor_index,
\* and to a monitor entry happens while the calling thread holds the global
\* mutex, so no two such operations are inside the tables at once.
RegistryWritten ==
    \/ dtp_index' # dtp_index
    \/ \E x \in Slots :
           \/ fd_looper_info'[x].fd # fd_looper_info[x].fd
           \/ fd_looper_info'[x].data_thread_id # fd_looper_info[x].data_thread_id
           \/ fd_looper_info'[x].event_thread_id # fd_looper_info[x].event_thread_id

MonitorWritten ==
    \/ port_monitor_index' # port_monitor_index
    \/ port_monitor_info' # port_monitor_info

WritesUnderMutex ==
    /\ (ub = NoUB /\ ub' = NoUB /\ caller' # caller /\ RegistryWritten) =>
           \E c \in Callers : caller'[c] # caller[c] /\ (mutex = c \/ mutex' = c)
    /\ (pm_ub = "none" /\ pm_ub' = "none" /\ MonitorWritten) =>
           \E c \in MonCallers : pm_caller'[c] # pm_caller[c] /\ (mutex = c \/ mutex' = c)

InsideTables ==
    {c \in Callers : caller[c].pc \notin {"idle", "absent", "su_wait"}}
        \cup {c \in MonCallers : pm_caller[c].pc \notin {"idle", "absent"}}

OneOperationInside ==
    (ub = NoUB /\ pm_ub = "none") =>
        /\ Cardinality(InsideTables) <= 1
        /\ \A c \in InsideTables : mutex = c

C29_TableWritesHoldMutex == []OneOperationInside /\ [][WritesUnderMutex]_vars

\* A monitor registration holds the mutex between its two writes while the
\* listener registry holds an entry made by another caller.
C29_Witness ==
    /\ pm_caller[3].pc = "rg_save"
    /\ mutex = 3
    /\ \E x \in Slots : fd_looper_info[x].fd \in FDs
    /\ port_monitor_index = 1

\* C30: after a successful openComPort the port is in the documented default
\* state: 9600 baud, 8 data bits, no parity, 1 stop bit, hardware and
\* software flow control off, non-canonical mode without echo, receiver
\* enabled, modem-status lines ignored, and both queues discarded after the
\* settings were applied.
EffectiveBaud(p, device) ==
    IF p = "linux"
    THEN IF device.cbaud = BOTHER THEN device.ospeed ELSE RateOfCode(device.cbaud)
    ELSE IF p = "sunos" THEN RateOfCode(device.cbaud)
    ELSE device.ospeed

C30_OpenLeavesDefaults ==
    (port_last.op = "open" /\ port_last.ret >= 0) =>
        /\ EffectiveBaud(platform, cfg_device) = 9600
        /\ cfg_device.csize = 8
        /\ {"PARENB", "CSTOPB"} \cap cfg_device.cflag = {}
        /\ HardwareFlowBits(platform) \cap cfg_device.cflag = {}
        /\ {"IXON", "IXOFF"} \cap cfg_device.iflag = {}
        /\ {"ICANON", "ECHO"} \cap cfg_device.lflag = {}
        /\ {"CREAD", "CLOCAL"} \subseteq cfg_device.cflag
        /\ port_last.flushed

\* C31: once readBytes holds partial data from an interrupted read, those
\* bytes are preserved whatever the following reads do: when the next read
\* reports "no data pending", end of stream or an interruption without data,
\* the result finally returned still contains the partial bytes.
C31_PartialBytesSurvive ==
    (rb_pc = "done" /\ rb_partialData = 1 /\ LastOutcome \in {"EAGAIN", "EOF"}) =>
        /\ rb_kind = "array"
        /\ Len(rb_dataRead) >= Len(rb_delivered)
        /\ \A j \in 1 .. Len(rb_delivered) : rb_dataRead[j] = rb_delivered[j]

\* C32: after a successful configureComPortData with the custom-baud sentinel
\* on a platform that supports custom rates, the effective baud rate of the
\* device is the custom value asked for: the later set call that applies data
\* bits, stop bits and parity does not put back the rate fetched at the start.
C32_CustomRateStays ==
    (cfg_last.op = "configureComPortData" /\ cfg_last.ret = 0 /\ cfg_last.failed = 0
        /\ cfg_last.baud = CustomBaudSentinel /\ platform \in {"linux", "apple"})
        => EffectiveBaud(platform, cfg_device) = CustomRate

\* A listener of the kind ran on the entry before (its init_done is set) and
\* runs no more (its thread id is clear).
RestartOfStopped(c) ==
    /\ ub = NoUB
    /\ caller[c].pc = "su_create"
    /\ caller[c].entry_found
    /\ ~caller[c].listening
    /\ fd_looper_info[caller[c].arg][InitDoneField(caller[c].kind)] = 1
    /\ fd_looper_info[caller[c].arg][ThreadIdField(OtherKind(caller[c].kind))] # 0

\* C33: when a listener kind is started again on an entry that stayed live
\* because the other kind kept running, the new thread is spawned with the
\* cancellation flag of its kind clear: a restarted listener is not cancelled
\* at birth.
C33_RestartSeesClearFlag ==
    \A c \in Callers :
        RestartOfStopped(c) =>
            fd_looper_info[caller[c].arg][ThreadExitField(caller[c].kind)] = 0

\* C34: a stop or unregister call for a descriptor that has no entry changes
\* no entry and touches nothing outside the table: it sets no cancellation
\* flag and wakes, signals or joins no thread.
C34_StopWithoutEntryTouchesNothing ==
    ~(ub.op = "destroy" /\ ub.cause = "write outside the table")

\* C35: when openComPort returns a failure, no descriptor opened by that call
\* remains open: every failure path after the open() closes it.
C35_FailedOpenLeavesNothingOpen ==
    (port_last.op = "open" /\ port_last.ret < 0) => ~port_open

\* C36: the configuration operations reject values outside the recognized
\* sets instead of applying something else: configureComPortData with data
\* bits outside 5..8 returns a failure and leaves the device as it was (and so
\* for an unknown baud rate or flow-control code).
C36_UnknownDataBitsRejected ==
    (cfg_last.op = "configureComPortData" /\ cfg_last.failed = 0
        /\ cfg_last.dataBits \notin 5 .. 8) => cfg_last.ret < 0

\* Both configuration calls returned 0.
BothConfigured ==
    /\ rmw["configureComPortData"].pc = "done" /\ rmw["configureComPortData"].ret = 0
    /\ rmw["configureComPortControl"].pc = "done"
    /\ rmw["configureComPortControl"].ret = 0

\* C37: when configureComPortData and configureComPortControl run at the same
\* time on one descriptor and both return 0, the control block the device
\* ends with carries the data bits and stop bits of the one and the flow
\* control of the other: no interleaving of their get and set calls loses an
\* update.
C37_ConcurrentConfigurationKeepsBoth ==
    BothConfigured =>
        /\ WithStopBits(WithDataBits(cfg_device, rmw["configureComPortData"].dataBits),
                        rmw["configureComPortData"].stopBits) = cfg_device
        /\ WithFlowControl(platform, cfg_device,
                           rmw["configureComPortControl"].flowctrl) = cfg_device

\* Both line calls returned 0.
BothLinesSet ==
    /\ rmw["setRTS"].pc = "done" /\ rmw["setRTS"].ret = 0
    /\ rmw["setDTR"].pc = "done" /\ rmw["setDTR"].ret = 0

\* C38: when setRTS(a) and setDTR(b) run at the same time on one descriptor
\* and both return 0, RTS is asserted exactly when a is true and DTR exactly
\* when b is true, under every interleaving.
C38_ConcurrentLinesKeepBoth ==
    BothLinesSet =>
        /\ ("RTS" \in modem) = rmw["setRTS"].enabled
        /\ ("DTR" \in modem) = rmw["setDTR"].enabled


\* C39: across the write() calls of one writeBytes call the bytes accepted so
\* far are exactly a prefix of the buffer, in order: every write() is handed
\* the part not yet accepted (data_buf[index] on, count bytes), the offset
\* advances by what a partial acceptance took and stays where it was after an
\* interruption, so no byte is submitted twice and none is skipped.
C39_AcceptedIsPrefix ==
    /\ wb_accepted = [j \in 1 .. Len(wb_accepted) |-> j - 1]
    /\ Len(wb_accepted) <= wb_n
    /\ wb_pc = "loop" =>
           /\ wb_index = Len(wb_accepted)
           /\ wb_count = wb_n - wb_index

\* Witness for C39: a buffer of three bytes went out whole in three or more
\* write() calls, each taking up where the one before stopped.
C39_Witness ==
    /\ wb_pc = "done" /\ wb_result = 0
    /\ wb_n >= 3 /\ Len(wb_accepted) = wb_n
    /\ wb_calls >= 3

====
